---------------------------- MODULE Spec2Model ----------------------------
(***************************************************************************)
(* Ingestion-and-tagging pipeline of adivo-monitoring: the snapshot store  *)
(* (upsert_pubmed_records, upsert_ctgov_records, ensure_snapshot), the     *)
(* competitor tagger (tag_competitors) and the PubMed window filter.       *)
(*                                                                         *)
(* Text values (affiliations, aliases, sponsor names, dates) are tuples of *)
(* one-character strings, so that lower(), strip(), split() and the        *)
(* substring test are computed character by character.                     *)
(*                                                                         *)
(* A table is the sequence of its rows in rowid order (snapshots, which no *)
(* statement reads in rowid order, is the set of its rows).  The schema    *)
(* DDL (schema.sql) is not among the sources; the keys the conflict        *)
(* clauses OR REPLACE / OR IGNORE act on are taken from the specification. *)
(***************************************************************************)
EXTENDS Integers, Sequences, FiniteSets, TLC

VARIABLES
    snapshots,            \* table snapshots: the set of its rows [snapshot_id, created_at, notes]
    documents,            \* table documents (committed): rows [doc_id, source, snapshot_id]
    affiliations,         \* table affiliations (committed): rows [doc_id, affiliation_text]
    competitor_aliases,   \* table competitor_aliases: rows [alias, competitor_id]
    competitor_mentions,  \* table competitor_mentions: rows [doc_id, competitor_id, match_text, mention_type]
    ret,                  \* what tag_competitors returned, while no other call followed it: [op, sid, count],
                          \* and (history) again: the call before it was a run on the same snapshot
    last,                 \* history: doc_id -> the last committed upsert of it, [sid, source, rec], or NoUpsert
    prev,                 \* history: doc_id -> the committed upsert of it before the last one, or NoUpsert
    pc,                   \* position of the connection inside upsert_*_records
    conn,                 \* the open connection's uncommitted view: [documents, affiliations]
    queue,                \* records of the batch the loop has not reached yet
    txSid,                \* snapshot_id argument of the running upsert
    before,               \* history: the committed tables when the running upsert was called
    mindate,              \* one_off_search_with_competitors: the requested window start
    maxdate,              \* one_off_search_with_competitors: the requested window end
    all_records,          \* the parsed records of the run
    in_window,            \* the records the window filter kept
    today,                \* ingest_profile: the UTC day of the run, as <<year, month, day>>
    start_ord,            \* first day of the filter's window, or NoneOrdinal
    end_ord,              \* last day of the filter's window, or NoneOrdinal
    wpc,                  \* position of the window filter run
    max_studies,          \* search_studies: <<n>> for the int n, <<>> for None
    ct_start_date,        \* search_studies: start_date as given, or None
    ct_end_date,          \* search_studies: end_date as given, or None
    ct_records,           \* search_studies: records, the candidates collected in fetch order
    page_token,           \* search_studies: continuation token of the last page, or None
    returned,             \* search_studies: the list it returned
    unread,               \* history: studies of the last page the loop did not reach
    upstream,             \* pages with a token the upstream will still serve, or Endless
    spc,                  \* position of search_studies: idle, paging, early, end, raised
    clock,                \* the UTC clock, in ticks since ClockStart
    monitoring_profiles,  \* table monitoring_profiles: profile_id -> [is_active, last_snapshot_id]
    run,                  \* the ingestion run in progress: its arguments, position, snapshot_id,
                          \* and (history) the adapter calls made and the tables when it began
    ensured,              \* history: [last: the last ensure_snapshot call, [given, notes, returned,
                          \* inserted, again], generated: the ids returned to calls with no id]
    date_text,            \* the date string handed to the two date normalizers, or None
    ordinals,             \* what each normalizer returned for it: [pubmed, ctgov], NotCalled before
    source_batch,         \* the source records of one efetch batch or one API page: [kind, items]
    parse_result,         \* what the adapter made of them: [done, records]
    competitors,          \* table competitors: canonical names, row i with competitor_id i
    seeding,              \* position of seed_competitors.main: [entry, cid], cid 0 between entries
    writers,              \* concurrent upserts: connection -> [pc, sid, rec, view, affs]
    db_lock,              \* the connection that holds the database's write lock, or 0
    document_summaries,   \* table document_summaries: rows [doc_id, snapshot_id, task]
    tasks,                \* background summarization tasks: task -> [pc, sid, docs, count]
    caller                \* the dashboard's search handler: [pc, snapshot_id, mentions, started]

vars == <<snapshots, documents, affiliations, competitor_aliases, competitor_mentions,
          ret, last, prev, pc, conn, queue, txSid, before,
          mindate, maxdate, all_records, in_window, today, start_ord, end_ord, wpc,
          max_studies, ct_start_date, ct_end_date, ct_records, page_token, returned, unread, upstream, spc,
          clock, monitoring_profiles, run, ensured,
          date_text, ordinals, source_batch, parse_result, competitors, seeding,
          writers, db_lock, document_summaries, tasks, caller>>

storeVars == <<snapshots, documents, affiliations, competitor_aliases,
               competitor_mentions, ret, last, prev>>
txVars == <<pc, conn, queue, txSid, before>>
windowVars == <<mindate, maxdate, all_records, in_window, today, start_ord, end_ord, wpc>>
searchVars == <<max_studies, ct_start_date, ct_end_date, ct_records, page_token, returned, unread, upstream, spc>>
runVars == <<clock, monitoring_profiles, run, ensured>>
dateVars == <<date_text, ordinals>>
parseVars == <<source_batch, parse_result>>
seedVars == <<competitors, seeding>>
concVars == <<writers, db_lock>>
summaryVars == <<document_summaries, tasks, caller>>
auxVars == <<dateVars, parseVars, seedVars, concVars, summaryVars>>

-----------------------------------------------------------------------------
(* Bounds of the model. *)

\* Longest batch of records one upsert call is given.
MaxBatch == 2

\* Most records the fetch batches of one run return.
MaxRecords == 2

\* Most studies one page of the ClinicalTrials.gov API carries.
MaxPageSize == 2

\* Ticks of the clock in one second.
TicksPerSecond == 2

\* The last tick at which ensure_snapshot reads the clock.
MaxClock == 3

\* Most adapter calls (esearch, efetch batches, page requests) of one run.
MaxRequests == 2

\* Most runs and lone ensure_snapshot calls, one after the other.
MaxRuns == 2

\* Most studies the pages of one search_studies call carry together.
MaxCandidates == 3

\* Most pages with a continuation token a finite upstream serves.
MaxTokenPages == 2

-----------------------------------------------------------------------------
(* Text. *)

UpperCase == <<"A","B","C","D","E","F","G","H","I","J","K","L","M",
               "N","O","P","Q","R","S","T","U","V","W","X","Y","Z">>
LowerCase == <<"a","b","c","d","e","f","g","h","i","j","k","l","m",
               "n","o","p","q","r","s","t","u","v","w","x","y","z">>

\* str.lower() on one character.
LowerChar(c) ==
    IF \E i \in DOMAIN UpperCase : UpperCase[i] = c
    THEN LowerCase[CHOOSE i \in DOMAIN UpperCase : UpperCase[i] = c]
    ELSE c

\* str.lower()
Lower(s) == [i \in DOMAIN s |-> LowerChar(s[i])]

\* Python's  needle in hay  on strings.
Contains(needle, hay) ==
    \E i \in 0..(Len(hay) - Len(needle)) :
        SubSeq(hay, i + 1, i + Len(needle)) = needle

\* str.strip(): leading and trailing blanks removed.
Strip(s) ==
    LET nb == {i \in DOMAIN s : s[i] # " "}
    IN  IF nb = {} THEN <<>>
        ELSE LET lo == CHOOSE i \in nb : \A j \in nb : i <= j
                 hi == CHOOSE i \in nb : \A j \in nb : j <= i
             IN  SubSeq(s, lo, hi)

-----------------------------------------------------------------------------
(* The values the inputs are drawn from. *)

AliasAcme == <<"A","c","m","e">>
AliasUCB == <<"U","C","B">>

\* "Dept. of Immunology, Acme Biotech Inc."
AffAcme == <<"D","e","p","t","."," ","o","f"," ","I","m","m","u","n","o","l","o","g","y",",",
             " ","A","c","m","e"," ","B","i","o","t","e","c","h"," ","I","n","c",".">>
\* "ucb pharma sa"
AffUcb == <<"u","c","b"," ","p","h","a","r","m","a"," ","s","a">>
\* "Pacmen Lab": holds "acme" inside an unrelated word
AffPacmen == <<"P","a","c","m","e","n"," ","L","a","b">>

\* Sponsor and collaborator names of trials.
NameAcme == <<"A","c","m","e"," ","I","n","c">>
NameAcmePadded == <<" ","A","c","m","e"," ","I","n","c"," ">>
NameUcb == <<"U","C","B"," ","S","A">>
NameBlank == <<" ">>

SnapshotIds == {"2026-02-16T13-48-49Z", "2026-02-17T09-00-00Z"}
CompetitorIds == {1, 2}
AliasRows == {[alias |-> AliasAcme, competitor_id |-> 1],
              [alias |-> AliasUCB, competitor_id |-> 2]}

Pmids == {"101"}
NctIds == {"NCT01"}

PubMedAffiliationLists == {<<AffAcme>>, <<AffUcb, AffAcme>>, <<AffPacmen, AffPacmen>>}
PubMedRecords == [pmid : Pmids, affiliations : PubMedAffiliationLists]

CTSponsors == {[lead_sponsor_name |-> <<>>, collaborator_names |-> <<NameBlank>>],
               [lead_sponsor_name |-> NameUcb, collaborator_names |-> <<>>],
               [lead_sponsor_name |-> NameAcme,
                collaborator_names |-> <<NameAcmePadded, NameUcb>>]}
CTRecords == {[nct_id |-> n, lead_sponsor_name |-> sp.lead_sponsor_name,
               collaborator_names |-> sp.collaborator_names] :
              n \in NctIds, sp \in CTSponsors}

\* Every sequence over S of length at most n.
SeqsUpTo(S, n) == UNION {[1..k -> S] : k \in 0..n}

Range(f) == {f[i] : i \in DOMAIN f}

NoUpsert == [sid |-> "none"]
NoRet == [op |-> "none"]

\* Python's None where a string may stand.
None == <<"<None>">>

\* None where an ordinal may stand: no date has the ordinal 0.
NoneOrdinal == 0

DigitChars == <<"0","1","2","3","4","5","6","7","8","9">>

\* The decimal digits of n >= 0, as the source document writes a number.
RECURSIVE IntToText(_)
IntToText(n) ==
    IF n < 10 THEN <<DigitChars[n + 1]>>
    ELSE IntToText(n \div 10) \o <<DigitChars[(n % 10) + 1]>>

\* str.zfill(width)
RECURSIVE ZFill(_, _)
ZFill(s, width) == IF Len(s) >= width THEN s ELSE ZFill(<<"0">> \o s, width)

-----------------------------------------------------------------------------
(* The clock ensure_snapshot reads, and the two texts it makes of it.      *)

\* datetime.now(timezone.utc) at tick 0.
ClockStart == [date |-> <<2026, 2, 16>>, hour |-> 9, minute |-> 59, second |-> 59]

\* datetime.now(timezone.utc) at tick t of the day of ClockStart.
Now(t) ==
    LET secs == ClockStart.hour * 3600 + ClockStart.minute * 60 + ClockStart.second
                    + (t \div TicksPerSecond)
    IN  [date |-> ClockStart.date,
         hour |-> secs \div 3600,
         minute |-> (secs % 3600) \div 60,
         second |-> secs % 60,
         microsecond |-> (t % TicksPerSecond) * (1000000 \div TicksPerSecond)]

TwoDigits(n) == ZFill(IntToText(n), 2)

\* %Y-%m-%d
DateDashed(date) ==
    ZFill(IntToText(date[1]), 4) \o <<"-">> \o TwoDigits(date[2])
        \o <<"-">> \o TwoDigits(date[3])

\* An id whose fields are written without leading zeros.
SnapshotIdUnpadded(now) ==
    IntToText(now.date[1]) \o <<"-">> \o IntToText(now.date[2]) \o <<"-">>
        \o IntToText(now.date[3]) \o <<"T">> \o IntToText(now.hour) \o <<"-">>
        \o IntToText(now.minute) \o <<"-">> \o IntToText(now.second) \o <<"Z">>

\* now.strftime("%Y-%m-%dT%H-%M-%SZ")
SnapshotIdOf(now) ==
    DateDashed(now.date) \o <<"T">> \o TwoDigits(now.hour) \o <<"-">>
        \o TwoDigits(now.minute) \o <<"-">> \o TwoDigits(now.second) \o <<"Z">>

\* now.isoformat() of an aware UTC datetime: the fraction is left out when
\* the microsecond is 0.
IsoFormat(now) ==
    DateDashed(now.date) \o <<"T">> \o TwoDigits(now.hour) \o <<":">>
        \o TwoDigits(now.minute) \o <<":">> \o TwoDigits(now.second)
        \o (IF now.microsecond = 0 THEN <<>>
            ELSE <<".">> \o ZFill(IntToText(now.microsecond), 6))
        \o <<"+","0","0",":","0","0">>


-----------------------------------------------------------------------------
(* The snapshot store: statements of upsert_pubmed_records and             *)
(* upsert_ctgov_records.                                                   *)

\* Key of the documents table: one row per prefixed native id.
DocumentKey(row) == row.doc_id

\* Key of the competitor_mentions table.
MentionKey(row) == <<row.doc_id, row.competitor_id, row.match_text>>

\* Key of the snapshots table.
SnapshotKey(row) == row.snapshot_id

\* Key of the competitor_aliases table.
AliasKey(row) == <<row.competitor_id, row.alias>>

PubmedDocId(rec) == "PMID:" \o rec.pmid
CtgovDocId(rec) == "NCT:" \o rec.nct_id

\* INSERT INTO documents with no conflict clause acting.
InsertDocumentKeepingOld(docs, row) == Append(docs, row)

\* INSERT OR IGNORE: the existing row wins.
InsertOrIgnoreDocument(docs, row) ==
    IF \E i \in DOMAIN docs : DocumentKey(docs[i]) = DocumentKey(row)
    THEN docs
    ELSE Append(docs, row)

\* INSERT OR REPLACE INTO documents: the rows with the same key go, the new row
\* is added.
InsertOrReplaceDocument(docs, row) ==
    Append(SelectSeq(docs, LAMBDA r : DocumentKey(r) # DocumentKey(row)), row)

\* The delete left out: the old rows stay.
KeepAffiliations(affs, doc_id) == affs

\* DELETE FROM affiliations WHERE doc_id = ?
DeleteAffiliations(affs, doc_id) ==
    SelectSeq(affs, LAMBDA r : r.doc_id # doc_id)

\* INSERT INTO affiliations (doc_id, affiliation_text) VALUES (?, ?)
InsertAffiliation(affs, doc_id, text) ==
    Append(affs, [doc_id |-> doc_id, affiliation_text |-> text])

RECURSIVE InsertAffiliations(_, _, _)
InsertAffiliations(affs, doc_id, texts) ==
    IF texts = <<>> THEN affs
    ELSE InsertAffiliations(InsertAffiliation(affs, doc_id, Head(texts)),
                            doc_id, Tail(texts))

\* The names as they are given: the empty ones left out, each distinct given
\* string kept where it first stands.
CtgovNamesAsGiven(names, seen) ==
    LET given == SelectSeq(names, LAMBDA n : n # <<>>)
        idx == {i \in DOMAIN given : \A j \in 1..(i - 1) : given[j] # given[i]}
        nth(k) == CHOOSE i \in idx : Cardinality({j \in idx : j < i}) = k - 1
    IN  [k \in 1..Cardinality(idx) |-> given[nth(k)]]

\* upsert_ctgov_records: the names that become affiliation rows, in order:
\* stripped, the empty ones and the ones already seen left out.
RECURSIVE CtgovNames(_, _)
CtgovNames(names, seen) ==
    IF names = <<>> THEN <<>>
    ELSE LET name == Strip(Head(names))
         IN  IF name # <<>> /\ name \notin seen
             THEN <<name>> \o CtgovNames(Tail(names), seen \cup {name})
             ELSE CtgovNames(Tail(names), seen)

CtgovAffiliations(rec) ==
    CtgovNames(<<rec.lead_sponsor_name>> \o rec.collaborator_names, {})

\* The loop body of upsert_pubmed_records on the connection's view c.
UpsertPubmedRecord(c, rec, sid) ==
    LET doc_id == PubmedDocId(rec)
        row == [doc_id |-> doc_id, source |-> "pubmed", snapshot_id |-> sid]
    IN  [documents |-> InsertOrReplaceDocument(c.documents, row),
         affiliations |->
             InsertAffiliations(DeleteAffiliations(c.affiliations, doc_id),
                                doc_id, rec.affiliations)]

\* The loop body of upsert_ctgov_records on the connection's view c.
UpsertCtgovRecord(c, rec, sid) ==
    LET doc_id == CtgovDocId(rec)
        row == [doc_id |-> doc_id, source |-> "ctgov", snapshot_id |-> sid]
    IN  [documents |-> InsertOrReplaceDocument(c.documents, row),
         affiliations |->
             InsertAffiliations(DeleteAffiliations(c.affiliations, doc_id),
                                doc_id, CtgovAffiliations(rec))]

UpsertRecord(c, source, rec, sid) ==
    IF source = "pubmed" THEN UpsertPubmedRecord(c, rec, sid)
    ELSE UpsertCtgovRecord(c, rec, sid)

DocIdOf(source, rec) ==
    IF source = "pubmed" THEN PubmedDocId(rec) ELSE CtgovDocId(rec)

\* for rec in records: ... over the whole batch.
RECURSIVE UpsertAll(_, _, _, _)
UpsertAll(c, source, recs, sid) ==
    IF recs = <<>> THEN c
    ELSE UpsertAll(UpsertRecord(c, source, Head(recs), sid), source, Tail(recs), sid)

\* History: the last committed upsert of each doc_id after the batch.
RECURSIVE RecordLast(_, _, _, _)
RecordLast(l, source, recs, sid) ==
    IF recs = <<>> THEN l
    ELSE RecordLast([l EXCEPT ![DocIdOf(source, Head(recs))] =
                        [sid |-> sid, source |-> source, rec |-> Head(recs)]],
                    source, Tail(recs), sid)

\* History: the upsert of each doc_id before its last one after the batch.
RECURSIVE RecordPrev(_, _, _, _, _)
RecordPrev(p, l, source, recs, sid) ==
    IF recs = <<>> THEN p
    ELSE LET d == DocIdOf(source, Head(recs))
         IN  RecordPrev([p EXCEPT ![d] = l[d]],
                        RecordLast(l, source, <<Head(recs)>>, sid),
                        source, Tail(recs), sid)

DocIds == {PubmedDocId(r) : r \in PubMedRecords} \cup {CtgovDocId(r) : r \in CTRecords}

SnapshotIdsOf(snaps) == {SnapshotKey(row) : row \in snaps}

-----------------------------------------------------------------------------
(* The competitor tagger: tag_competitors.                                 *)

\* SELECT ca.alias, c.competitor_id FROM competitor_aliases ca JOIN competitors c
AliasJoin(aliases) ==
    SelectSeq(aliases, LAMBDA r : r.competitor_id \in CompetitorIds)

\* The join with the WHERE clause left out: the affiliations of every snapshot.
AffRowsOfAllSnapshots(docs, affs, sid) ==
    SelectSeq(affs, LAMBDA a : \E i \in DOMAIN docs : docs[i].doc_id = a.doc_id)

\* SELECT a.doc_id, a.affiliation_text FROM affiliations a JOIN documents d
\* ON d.doc_id = a.doc_id WHERE d.snapshot_id = ?
AffRows(docs, affs, sid) ==
    SelectSeq(affs, LAMBDA a :
        \E i \in DOMAIN docs :
            docs[i].doc_id = a.doc_id /\ docs[i].snapshot_id = sid)

\* A test that compares the cases as they are written.
AliasMatchesCaseSensitive(alias, aff_text) == Contains(alias, aff_text)

\* if alias.lower() in aff_lower
AliasMatches(alias, aff_text) == Contains(Lower(alias), Lower(aff_text))

MentionRow(doc_id, al) ==
    [doc_id |-> doc_id, competitor_id |-> al.competitor_id,
     match_text |-> al.alias, mention_type |-> "affiliation"]

\* for alias, competitor_id in aliases: the rows one affiliation row inserts.
RECURSIVE MatchesOfAffiliation(_, _)
MatchesOfAffiliation(a, aliases) ==
    IF aliases = <<>> THEN <<>>
    ELSE (IF AliasMatches(Head(aliases).alias, a.affiliation_text)
          THEN <<MentionRow(a.doc_id, Head(aliases))>>
          ELSE <<>>)
         \o MatchesOfAffiliation(a, Tail(aliases))

\* for doc_id, aff_text in aff_rows: every insert the run executes, in order.
RECURSIVE TagMatches(_, _)
TagMatches(aff_rows, aliases) ==
    IF aff_rows = <<>> THEN <<>>
    ELSE MatchesOfAffiliation(Head(aff_rows), aliases)
         \o TagMatches(Tail(aff_rows), aliases)

\* A plain INSERT where no key stops the second row.
InsertMention(ment, row) == Append(ment, row)

\* INSERT OR IGNORE INTO competitor_mentions
InsertOrIgnoreMention(ment, row) ==
    IF \E i \in DOMAIN ment : MentionKey(ment[i]) = MentionKey(row)
    THEN ment
    ELSE Append(ment, row)

RECURSIVE InsertMentions(_, _)
InsertMentions(ment, rows) ==
    IF rows = <<>> THEN ment
    ELSE InsertMentions(InsertOrIgnoreMention(ment, Head(rows)), Tail(rows))

\* A tagger that first clears the mentions of the documents it is about to scan.
TaggedMentionsRefreshed(ment, aff_rows, matches) ==
    InsertMentions(
        SelectSeq(ment, LAMBDA m :
            \A i \in DOMAIN aff_rows : aff_rows[i].doc_id # m.doc_id),
        matches)

\* competitor_mentions after the loop and the commit.
TaggedMentions(ment, aff_rows, matches) == InsertMentions(ment, matches)

\* A counter that counts only the inserts that added a row.
CountInserted(ment, matches) == Len(InsertMentions(ment, matches)) - Len(ment)

\* A counter of the distinct mentions the run matched.
CountDistinct(ment, matches) == Cardinality({MentionKey(m) : m \in Range(matches)})

\* count += 1 after every insert, ignored or not.
CountMatches(ment, matches) == Len(matches)

-----------------------------------------------------------------------------
(* The store and the tagger, call by call.                                 *)

StoreInit ==
    /\ snapshots = {}
    /\ documents = <<>>
    /\ affiliations = <<>>
    /\ competitor_aliases = <<>>
    /\ competitor_mentions = <<>>
    /\ ret = NoRet
    /\ last = [d \in DocIds |-> NoUpsert]
    /\ prev = [d \in DocIds |-> NoUpsert]

NoView == [documents |-> <<>>, affiliations |-> <<>>]

\* The connection is gone: nothing of the call is left.
TxReset ==
    /\ pc' = "idle"
    /\ conn' = NoView
    /\ queue' = <<>>
    /\ txSid' = "none"
    /\ before' = NoView

TxIdle ==
    /\ pc = "idle"
    /\ conn = NoView
    /\ queue = <<>>
    /\ txSid = "none"
    /\ before = NoView

WindowIdle ==
    /\ mindate = <<>>
    /\ maxdate = <<>>
    /\ all_records = <<>>
    /\ in_window = <<>>
    /\ today = <<>>
    /\ start_ord = NoneOrdinal
    /\ end_ord = NoneOrdinal
    /\ wpc = "idle"

\* No search_studies call is running.
SearchIdle ==
    /\ max_studies = <<>>
    /\ ct_start_date = None
    /\ ct_end_date = None
    /\ ct_records = <<>>
    /\ page_token = None
    /\ returned = <<>>
    /\ unread = 0
    /\ upstream = 0
    /\ spc = "idle"

\* The tables a run may add to or change.
Tables ==
    [snapshots |-> snapshots, documents |-> documents, affiliations |-> affiliations,
     competitor_mentions |-> competitor_mentions]

NoWindow == <<None, None>>

\* No ensure_snapshot call has been made.
NoCall ==
    [given |-> None, notes |-> None, returned |-> None, inserted |-> FALSE, again |-> FALSE]

\* A number the run has not printed.
NotReported == -1

\* What a run has printed so far: the counts of its progress lines.
NoReport ==
    [fetched |-> NotReported, filtered_out |-> NotReported,
     ingested |-> NotReported, mentions |-> NotReported]

\* What a run holds when it begins: no ids, no records, nothing printed.
RunLocals == [pmids |-> 0, candidates |-> 0, in_window |-> <<>>, report |-> NoReport]

\* No run has been started.
RunIdle ==
    [kind |-> "none", started |-> 0, profile_id |-> 0, window |-> NoWindow, pc |-> "idle",
     snapshot_id |-> None, requests |-> 0,
     began |-> [snapshots |-> {}, documents |-> <<>>, affiliations |-> <<>>,
                competitor_mentions |-> <<>>],
     locals |-> RunLocals]

\* monitoring_profiles as seeded: profile 1 active, profile 2 switched off.
ProfilesInit ==
    [p \in {1, 2} |-> [is_active |-> (p = 1), last_snapshot_id |-> None]]

RunInit ==
    /\ clock = 0
    /\ monitoring_profiles = ProfilesInit
    /\ run = RunIdle
    /\ ensured = [last |-> NoCall, generated |-> {}]

\* No normalizer call made.
NotCalled == -2

DatesIdle ==
    /\ date_text = None
    /\ ordinals = [pubmed |-> NotCalled, ctgov |-> NotCalled]

NotParsed == [done |-> FALSE, records |-> <<>>]

ParseIdle ==
    /\ source_batch = [kind |-> "none", items |-> <<>>]
    /\ parse_result = NotParsed

\* The competitor tables before seed_competitors has run.
SeedIdle ==
    /\ competitors = <<>>
    /\ seeding = [entry |-> 1, cid |-> 0]

\* The connections of two runs that may upsert at the same time.
Conns == {1, 2}

NoWriter == [pc |-> "idle"]

ConcIdle ==
    /\ writers = [c \in Conns |-> NoWriter]
    /\ db_lock = 0

\* The background tasks: the subprocess one_off_search_with_competitors
\* starts and the thread the dashboard starts.
Subprocess == 1
Thread == 2
TaskIds == {Subprocess, Thread}

NoTask == [pc |-> "none"]

SummariesIdle ==
    /\ document_summaries = <<>>
    /\ tasks = [t \in TaskIds |-> NoTask]
    /\ caller = [pc |-> "idle"]

AuxIdle == DatesIdle /\ ParseIdle /\ SeedIdle /\ ConcIdle /\ SummariesIdle

CoreIdle == StoreInit /\ TxIdle /\ WindowIdle /\ SearchIdle /\ RunInit

Init == CoreIdle /\ AuxIdle

\* A statement that replaces the row of the same key.
InsertOrReplaceSnapshot(snaps, row) ==
    {r \in snaps : SnapshotKey(r) # SnapshotKey(row)} \cup {row}

\* INSERT OR IGNORE INTO snapshots (snapshot_id, created_at, notes)
InsertOrIgnoreSnapshot(snaps, row) ==
    IF \E r \in snaps : SnapshotKey(r) = SnapshotKey(row)
    THEN snaps
    ELSE snaps \cup {row}

\* ensure_snapshot(snapshot_id) with an id given and no notes: created_at is
\* read from the clock, INSERT OR IGNORE, commit.
EnsureSnapshot(sid) ==
    /\ snapshots' =
          InsertOrIgnoreSnapshot(snapshots,
              [snapshot_id |-> sid, created_at |-> IsoFormat(Now(clock)), notes |-> None])
    /\ ret' = NoRet
    /\ UNCHANGED <<documents, affiliations, competitor_aliases, competitor_mentions,
                   last, prev>>

\* upsert_pubmed_records / upsert_ctgov_records, from connect() to commit().
Upsert(source, recs, sid) ==
    /\ sid \in SnapshotIdsOf(snapshots)
    /\ LET c == UpsertAll([documents |-> documents, affiliations |-> affiliations],
                          source, recs, sid)
       IN  /\ documents' = c.documents
           /\ affiliations' = c.affiliations
    /\ ret' = NoRet
    /\ UNCHANGED <<snapshots, competitor_aliases, competitor_mentions>>

\* The call, with the history of what it committed.
UpsertRecorded(source, recs, sid) ==
    /\ Upsert(source, recs, sid)
    /\ last' = RecordLast(last, source, recs, sid)
    /\ prev' = RecordPrev(prev, last, source, recs, sid)

\* A call with a batch of up to MaxBatch records.
UpsertPubmedBatch == \E recs \in SeqsUpTo(PubMedRecords, MaxBatch), sid \in SnapshotIds :
    UpsertRecorded("pubmed", recs, sid)

UpsertCtgovBatch == \E recs \in SeqsUpTo(CTRecords, MaxBatch), sid \in SnapshotIds :
    UpsertRecorded("ctgov", recs, sid)

\* A call with one record.  A batch is committed as a whole, so the tables
\* after a batch are the tables after its records upserted one call after
\* another.
UpsertPubmedOne == \E rec \in PubMedRecords, sid \in SnapshotIds :
    Upsert("pubmed", <<rec>>, sid) /\ UNCHANGED <<last, prev>>

UpsertCtgovOne == \E rec \in CTRecords, sid \in SnapshotIds :
    Upsert("ctgov", <<rec>>, sid) /\ UNCHANGED <<last, prev>>

\* tag_competitors(snapshot_id)
TagCompetitors(sid) ==
    LET aliases == AliasJoin(competitor_aliases)
        aff_rows == AffRows(documents, affiliations, sid)
        matches == TagMatches(aff_rows, aliases)
    IN  /\ competitor_mentions' = TaggedMentions(competitor_mentions, aff_rows, matches)
        /\ ret' = [op |-> "tag", sid |-> sid,
                   count |-> CountMatches(competitor_mentions, matches),
                   again |-> (ret.op = "tag" /\ ret.sid = sid)]
        /\ UNCHANGED <<snapshots, documents, affiliations, competitor_aliases, last, prev>>

\* add_aliases: INSERT OR IGNORE INTO competitor_aliases
AddAlias(row) ==
    /\ competitor_aliases' =
          IF \E i \in DOMAIN competitor_aliases :
                 AliasKey(competitor_aliases[i]) = AliasKey(row)
          THEN competitor_aliases
          ELSE Append(competitor_aliases, row)
    /\ ret' = NoRet
    /\ UNCHANGED <<snapshots, documents, affiliations, competitor_mentions, last, prev>>

\* A mistaken alias is taken out of the alias table (reference data, kept
\* outside the pipeline).
RemoveAlias(row) ==
    /\ \E i \in DOMAIN competitor_aliases : competitor_aliases[i] = row
    /\ competitor_aliases' = SelectSeq(competitor_aliases, LAMBDA r : r # row)
    /\ ret' = NoRet
    /\ UNCHANGED <<snapshots, documents, affiliations, competitor_mentions, last, prev>>

Next ==
    \/ (\E sid \in SnapshotIds : EnsureSnapshot(sid)) /\ UNCHANGED <<txVars, windowVars, searchVars, runVars, auxVars>>
    \/ UpsertPubmedOne /\ UNCHANGED <<txVars, windowVars, searchVars, runVars, auxVars>>
    \/ UpsertCtgovOne /\ UNCHANGED <<txVars, windowVars, searchVars, runVars, auxVars>>
    \/ (\E sid \in SnapshotIds : TagCompetitors(sid)) /\ UNCHANGED <<txVars, windowVars, searchVars, runVars, auxVars>>
    \/ (\E row \in AliasRows : AddAlias(row)) /\ UNCHANGED <<txVars, windowVars, searchVars, runVars, auxVars>>
    \/ (\E row \in AliasRows : RemoveAlias(row)) /\ UNCHANGED <<txVars, windowVars, searchVars, runVars, auxVars>>

Spec == Init /\ [][Next]_vars

-----------------------------------------------------------------------------
(* The store alone: upserts of whole batches into any snapshot.            *)

NextStore ==
    \/ (\E sid \in SnapshotIds : EnsureSnapshot(sid)) /\ UNCHANGED <<txVars, windowVars, searchVars, runVars, auxVars>>
    \/ UpsertPubmedBatch /\ UNCHANGED <<txVars, windowVars, searchVars, runVars, auxVars>>
    \/ UpsertCtgovBatch /\ UNCHANGED <<txVars, windowVars, searchVars, runVars, auxVars>>

SpecStore == Init /\ [][NextStore]_vars

-----------------------------------------------------------------------------
(* One upsert call statement by statement, on its connection.  Readers on  *)
(* other connections see the committed tables documents and affiliations;  *)
(* the statements act on the connection's view conn until commit().        *)

\* The snapshot the calls of this specification write to.
TxSnapshotId == "2026-02-16T13-48-49Z"

\* Connection.__exit__ that commits whatever the block did.
CommitOnException(committed, view) == view

\* with connect() as conn: an exception leaving the block rolls back.
RollbackOnException(committed, view) == committed

Committed == [documents |-> documents, affiliations |-> affiliations]

\* upsert_*_records(records, snapshot_id) is called: connect().
UpsertCall(source, recs, sid) ==
    /\ pc = "idle"
    /\ sid \in SnapshotIdsOf(snapshots)
    /\ conn' = Committed
    /\ before' = Committed
    /\ queue' = [source |-> source, batch |-> recs, rest |-> recs, affs |-> <<>>]
    /\ txSid' = sid
    /\ pc' = "loop"
    /\ UNCHANGED storeVars

\* for rec in records: the next record, or conn.commit() after the last.
UpsertLoop ==
    /\ pc = "loop"
    /\ IF queue.rest = <<>>
       THEN /\ documents' = conn.documents
            /\ affiliations' = conn.affiliations
            /\ last' = RecordLast(last, queue.source, queue.batch, txSid)
            /\ TxReset
       ELSE /\ pc' = "archive"
            /\ UNCHANGED <<documents, affiliations, last, conn, queue, txSid, before>>
    /\ UNCHANGED <<snapshots, competitor_aliases, competitor_mentions, ret, prev>>

\* raw_path.write_text(...): the provenance file of the record.
UpsertArchive ==
    /\ pc = "archive"
    /\ pc' = "document"
    /\ UNCHANGED <<storeVars, conn, queue, txSid, before>>

\* INSERT OR REPLACE INTO documents
UpsertDocument ==
    /\ pc = "document"
    /\ LET rec == Head(queue.rest)
           row == [doc_id |-> DocIdOf(queue.source, rec), source |-> queue.source,
                   snapshot_id |-> txSid]
       IN  conn' = [conn EXCEPT !.documents = InsertOrReplaceDocument(@, row)]
    /\ pc' = "delete"
    /\ UNCHANGED <<storeVars, queue, txSid, before>>

\* DELETE FROM affiliations WHERE doc_id = ?
UpsertDelete ==
    /\ pc = "delete"
    /\ LET rec == Head(queue.rest)
       IN  /\ conn' = [conn EXCEPT !.affiliations =
                          DeleteAffiliations(@, DocIdOf(queue.source, rec))]
           /\ queue' = [queue EXCEPT !.affs =
                          IF queue.source = "pubmed" THEN rec.affiliations
                          ELSE CtgovAffiliations(rec)]
    /\ pc' = "insert"
    /\ UNCHANGED <<storeVars, txSid, before>>

\* INSERT INTO affiliations, one row per statement; then the next record.
UpsertInsert ==
    /\ pc = "insert"
    /\ IF queue.affs = <<>>
       THEN /\ queue' = [queue EXCEPT !.rest = Tail(@)]
            /\ pc' = "loop"
            /\ UNCHANGED conn
       ELSE /\ conn' = [conn EXCEPT !.affiliations =
                          InsertAffiliation(@, DocIdOf(queue.source, Head(queue.rest)),
                                            Head(queue.affs))]
            /\ queue' = [queue EXCEPT !.affs = Tail(@)]
            /\ pc' = "insert"
    /\ UNCHANGED <<storeVars, txSid, before>>

\* The statement at pc raises (the file cannot be written, the database
\* refuses the statement): the with block is left by the exception.
UpsertRaise ==
    /\ pc \in {"archive", "document", "delete", "insert"}
    /\ LET after == RollbackOnException(Committed, conn)
       IN  /\ documents' = after.documents
           /\ affiliations' = after.affiliations
    /\ pc' = "raised"
    /\ UNCHANGED <<snapshots, competitor_aliases, competitor_mentions, ret, last, prev,
                   conn, queue, txSid, before>>

\* The exception reaches the caller of upsert_*_records.
UpsertRaised ==
    /\ pc = "raised"
    /\ TxReset
    /\ UNCHANGED storeVars

NextTx ==
    \/ /\ pc = "idle"
       /\ EnsureSnapshot(TxSnapshotId)
       /\ UNCHANGED <<txVars, windowVars, searchVars, runVars, auxVars>>
    \/ (\E recs \in SeqsUpTo(PubMedRecords, MaxBatch) :
            UpsertCall("pubmed", recs, TxSnapshotId)) /\ UNCHANGED <<windowVars, searchVars, runVars, auxVars>>
    \/ (\E recs \in SeqsUpTo(CTRecords, MaxBatch) :
            UpsertCall("ctgov", recs, TxSnapshotId)) /\ UNCHANGED <<windowVars, searchVars, runVars, auxVars>>
    \/ UpsertLoop /\ UNCHANGED <<windowVars, searchVars, runVars, auxVars>>
    \/ UpsertArchive /\ UNCHANGED <<windowVars, searchVars, runVars, auxVars>>
    \/ UpsertDocument /\ UNCHANGED <<windowVars, searchVars, runVars, auxVars>>
    \/ UpsertDelete /\ UNCHANGED <<windowVars, searchVars, runVars, auxVars>>
    \/ UpsertInsert /\ UNCHANGED <<windowVars, searchVars, runVars, auxVars>>
    \/ UpsertRaise /\ UNCHANGED <<windowVars, searchVars, runVars, auxVars>>
    \/ UpsertRaised /\ UNCHANGED <<windowVars, searchVars, runVars, auxVars>>

SpecTx == Init /\ [][NextTx]_vars

-----------------------------------------------------------------------------
(* Properties of the store.                                                *)

\* The rows of table docs with doc_id d.
DocumentRows(docs, d) == {i \in DOMAIN docs : docs[i].doc_id = d}

\* The affiliation texts of doc_id d, in row order.
AffiliationTexts(affs, d) ==
    LET rows == SelectSeq(affs, LAMBDA r : r.doc_id = d)
    IN  [i \in DOMAIN rows |-> rows[i].affiliation_text]

\* The affiliations an upserted record carries: the list of a paper; the
\* stripped, non-empty sponsor and collaborator names of a trial.
CarriesAffiliations(u, texts) ==
    IF u.source = "pubmed"
    THEN texts = u.rec.affiliations
    ELSE Range(texts) =
            {Strip(n) : n \in {u.rec.lead_sponsor_name} \cup Range(u.rec.collaborator_names)}
            \ {<<>>}

\* C1: a doc_id upserted twice in a row into the same snapshot has exactly one
\* document row, and its affiliation rows are the affiliations of the second
\* upsert's record (not those of the first followed by those of the second).
C1_SecondUpsertReplaces ==
    \A d \in DocIds :
        (prev[d] # NoUpsert /\ prev[d].sid = last[d].sid) =>
            /\ Cardinality(DocumentRows(documents, d)) = 1
            /\ CarriesAffiliations(last[d], AffiliationTexts(affiliations, d))

\* Both sources: the second upsert into the same snapshot carried other
\* affiliations than the first.
C1_Witness ==
    /\ prev["PMID:101"] # NoUpsert
      /\ prev["PMID:101"].sid = last["PMID:101"].sid
      /\ prev["PMID:101"].rec.affiliations = <<AffUcb, AffAcme>>
      /\ last["PMID:101"].rec.affiliations = <<AffPacmen, AffPacmen>>
    /\ prev["NCT:NCT01"] # NoUpsert
      /\ prev["NCT:NCT01"].sid = last["NCT:NCT01"].sid
      /\ prev["NCT:NCT01"].rec.lead_sponsor_name = NameAcme
      /\ last["NCT:NCT01"].rec.lead_sponsor_name = NameUcb

\* C2: every doc_id has at most one document row; once upserted it has one,
\* in the snapshot of its last upsert, and in no other snapshot.
C2_OneRowInLastSnapshot ==
    \A d \in DocIds :
        /\ Cardinality(DocumentRows(documents, d)) <= 1
        /\ last[d] # NoUpsert =>
              /\ \E i \in DOMAIN documents :
                    documents[i].doc_id = d /\ documents[i].snapshot_id = last[d].sid
              /\ \A i \in DOMAIN documents, s \in SnapshotIds \ {last[d].sid} :
                    ~(documents[i].doc_id = d /\ documents[i].snapshot_id = s)

\* A document was upserted into one snapshot and later into another.
C2_Witness ==
    \E d \in DocIds :
        /\ prev[d] # NoUpsert
        /\ prev[d].sid # last[d].sid
        /\ \E i \in DOMAIN documents :
              documents[i].doc_id = d /\ documents[i].snapshot_id = last[d].sid

\* No affiliation row without its document row, and every document row with
\* the affiliations of the record that was last committed for it.
StoreConsistent ==
    /\ \A i \in DOMAIN affiliations :
          DocumentRows(documents, affiliations[i].doc_id) # {}
    /\ \A i \in DOMAIN documents :
          /\ last[documents[i].doc_id] # NoUpsert
          /\ CarriesAffiliations(last[documents[i].doc_id],
                                 AffiliationTexts(affiliations, documents[i].doc_id))

\* C3: while an upsert call runs and after it has failed, the tables other
\* readers see are the tables as they were when the call began, and they hold
\* no document without its affiliations and no affiliation without its document.
C3_FailedUpsertLeavesTables ==
    /\ pc # "idle" => Committed = before
    /\ StoreConsistent

\* The call failed at an INSERT INTO affiliations of its second record, after
\* the first record and the second's document row had been written on the
\* connection, with rows committed by an earlier call in the tables.
C3_Witness ==
    /\ pc = "raised"
    /\ Len(queue.batch) = 2
    /\ Len(queue.rest) = 1
    /\ queue.affs # <<>>
    /\ conn.documents # documents
    /\ conn.affiliations # affiliations
    /\ documents # <<>>

-----------------------------------------------------------------------------
(* Properties of the tagger.                                               *)

\* The step is a run of tag_competitors (ret holds what it returned).
TagRan == ret'.op = "tag"

\* The (affiliation row, alias row) pairs of snapshot sid in which the alias is
\* inside the affiliation text, letter case aside.
MatchingPairs(sid) ==
    {p \in (DOMAIN affiliations) \X (DOMAIN competitor_aliases) :
        /\ \E i \in DOMAIN documents :
              /\ documents[i].doc_id = affiliations[p[1]].doc_id
              /\ documents[i].snapshot_id = sid
        /\ Contains(Lower(competitor_aliases[p[2]].alias),
                    Lower(affiliations[p[1]].affiliation_text))}

\* C4: competitor_mentions holds at most one row for each
\* (doc_id, competitor_id, match_text).
C4_MentionKeyUnique ==
    \A i, j \in DOMAIN competitor_mentions :
        MentionKey(competitor_mentions[i]) = MentionKey(competitor_mentions[j]) => i = j

\* A run matched the same alias in two affiliation rows of one document: two
\* inserts of one triple, one row.
C4_Witness ==
    /\ ret.op = "tag"
    /\ ret.count = 2
    /\ Len(competitor_mentions) = 1
    /\ AffiliationTexts(affiliations, "PMID:101") = <<AffPacmen, AffPacmen>>

\* C5: a run of tag_competitors on a snapshot right after a run on the same
\* snapshot leaves competitor_mentions as it is and returns the same count.
C5_SecondTagRunChangesNothing ==
    [][(ret.op = "tag" /\ TagRan /\ ret'.sid = ret.sid) =>
          /\ competitor_mentions' = competitor_mentions
          /\ ret'.count = ret.count]_vars

\* After the second of two runs on one snapshot that holds three matches.
C5_Witness ==
    /\ ret.op = "tag"
    /\ ret.again
    /\ ret.count = 3
    /\ Len(competitor_mentions) = 3

\* C6: the count tag_competitors returns is the number of matching
\* (affiliation row, alias row) pairs of the snapshot, and at least the number
\* of rows the run added.
C6_CountIsMatchingPairs ==
    [][TagRan =>
          /\ ret'.count = Cardinality(MatchingPairs(ret'.sid))
          /\ ret'.count >= Len(competitor_mentions') - Len(competitor_mentions)]_vars

\* A run that counted more pairs than competitor_mentions has rows.
C6_Witness ==
    /\ ret.op = "tag"
    /\ ret.count = 4
    /\ Len(competitor_mentions) < 4

\* The mention rows the matching pairs of snapshot sid stand for.
MatchedMentions(sid) ==
    {MentionRow(affiliations[p[1]].doc_id, competitor_aliases[p[2]]) :
        p \in MatchingPairs(sid)}

\* One document, its only affiliation "Dept. of Immunology, Acme Biotech Inc.",
\* the only alias "Acme".
AcmeScenario ==
    /\ Len(documents) = 1
    /\ AffiliationTexts(affiliations, documents[1].doc_id) = <<AffAcme>>
    /\ competitor_aliases = <<[alias |-> AliasAcme, competitor_id |-> 1]>>

\* C7: a run adds exactly the mentions of the matching pairs of its snapshot
\* (none for a document of another snapshot); in the Acme scenario the
\* document has exactly one mention row of the competitor, with match_text
\* "Acme".
C7_TagAddsMatchedMentions ==
    [][TagRan =>
          /\ Range(competitor_mentions') =
                Range(competitor_mentions) \cup MatchedMentions(ret'.sid)
          /\ (AcmeScenario /\ documents[1].snapshot_id = ret'.sid) =>
                /\ Cardinality({i \in DOMAIN competitor_mentions' :
                       /\ competitor_mentions'[i].doc_id = documents[1].doc_id
                       /\ competitor_mentions'[i].competitor_id = 1}) = 1
                /\ \E i \in DOMAIN competitor_mentions' :
                       /\ competitor_mentions'[i].doc_id = documents[1].doc_id
                       /\ competitor_mentions'[i].competitor_id = 1
                       /\ competitor_mentions'[i].match_text = AliasAcme]_vars

\* The Acme scenario after its tag run.
C7_Witness ==
    /\ ret.op = "tag"
    /\ AcmeScenario
    /\ documents[1].snapshot_id = ret.sid
    /\ competitor_mentions =
          <<[doc_id |-> documents[1].doc_id, competitor_id |-> 1,
             match_text |-> AliasAcme, mention_type |-> "affiliation"]>>

\* C8: a run of tag_competitors keeps every row competitor_mentions had,
\* unchanged and in place.
C8_TagKeepsMentions ==
    [][TagRan =>
          /\ Len(competitor_mentions') >= Len(competitor_mentions)
          /\ \A i \in DOMAIN competitor_mentions :
                competitor_mentions'[i] = competitor_mentions[i]]_vars

\* After a run on the document's snapshot: the mention of alias "Acme" is
\* still there although the alias is gone from the alias table, and the mention
\* of alias "UCB" although the re-upserted affiliations no longer hold it.
C8_Witness ==
    /\ ret.op = "tag"
    /\ \E i \in DOMAIN documents :
          documents[i].doc_id = "PMID:101" /\ documents[i].snapshot_id = ret.sid
    /\ AffiliationTexts(affiliations, "PMID:101") = <<AffPacmen, AffPacmen>>
    /\ competitor_aliases = <<[alias |-> AliasUCB, competitor_id |-> 2]>>
    /\ \E i, j \in DOMAIN competitor_mentions :
          /\ competitor_mentions[i].doc_id = "PMID:101"
          /\ competitor_mentions[i].match_text = AliasAcme
          /\ competitor_mentions[j].doc_id = "PMID:101"
          /\ competitor_mentions[j].match_text = AliasUCB

-----------------------------------------------------------------------------
(* Dates: _parse_pub_date / _parse_epub_date build the date strings,       *)
(* _parse_date_to_ordinal and strptime read them.                          *)

\* The yyyy-mm-dd / yyyy-mm / yyyy string of an ArticleDate or of an epub
\* PubMedPubDate with the texts y, m, d (<<>> for a missing element).
IsoDateString(y, m, d) ==
    IF y # <<>> /\ m # <<>> /\ d # <<>>
        THEN y \o <<"-">> \o ZFill(m, 2) \o <<"-">> \o ZFill(d, 2)
    ELSE IF y # <<>> /\ m # <<>> THEN y \o <<"-">> \o ZFill(m, 2)
    ELSE IF y # <<>> THEN y
    ELSE None

\* str.split(sep)
RECURSIVE Split(_, _)
Split(s, sep) ==
    IF \E i \in DOMAIN s : s[i] = sep
    THEN LET i == CHOOSE k \in DOMAIN s : s[k] = sep /\ \A j \in 1..(k - 1) : s[j] # sep
         IN  <<SubSeq(s, 1, i - 1)>> \o Split(SubSeq(s, i + 1, Len(s)), sep)
    ELSE <<s>>

\* U+00B2, a character str.isdigit() accepts and int() rejects.
SuperscriptTwo == "sup2"

\* The text int() reads: decimal digits only.
IsDecimal(s) ==
    /\ s # <<>>
    /\ \A i \in DOMAIN s : \E k \in DOMAIN DigitChars : DigitChars[k] = s[i]

\* str.isdigit()
IsDigit(s) ==
    /\ s # <<>>
    /\ \A i \in DOMAIN s :
        \/ s[i] = SuperscriptTwo
        \/ \E k \in DOMAIN DigitChars : DigitChars[k] = s[i]

DigitValue(c) == CHOOSE k \in 0..9 : DigitChars[k + 1] = c

\* int(s) of a decimal string
RECURSIVE ToInt(_)
ToInt(s) ==
    IF s = <<>> THEN 0
    ELSE 10 * ToInt(SubSeq(s, 1, Len(s) - 1)) + DigitValue(s[Len(s)])

IsLeap(y) == (y % 4 = 0 /\ y % 100 # 0) \/ y % 400 = 0

DaysInMonth(y, m) ==
    IF m = 2 THEN (IF IsLeap(y) THEN 29 ELSE 28)
    ELSE IF m \in {4, 6, 9, 11} THEN 30 ELSE 31

\* datetime(year, month, day) raises ValueError outside these ranges.
ValidDate(y, m, d) ==
    /\ y \in 1..9999
    /\ m \in 1..12
    /\ d >= 1 /\ d <= DaysInMonth(y, m)

RECURSIVE DaysBeforeMonth(_, _)
DaysBeforeMonth(y, m) ==
    IF m = 1 THEN 0 ELSE DaysBeforeMonth(y, m - 1) + DaysInMonth(y, m - 1)

\* date.toordinal(): 0001-01-01 is day 1.
ToOrdinal(y, m, d) ==
    LET p == y - 1
    IN  p * 365 + (p \div 4) - (p \div 100) + (p \div 400) + DaysBeforeMonth(y, m) + d

\* An exception that leaves the function instead of a value.
Raised == -1

\* The largest value datetime() converts to a C int; above it the constructor
\* raises OverflowError instead of ValueError.
MaxCInt == 2147483647

RECURSIVE NoLeadingZeros(_)
NoLeadingZeros(s) ==
    IF Len(s) > 1 /\ Head(s) = "0" THEN NoLeadingZeros(Tail(s)) ELSE s

\* int(s) > MaxCInt, read off the digits.
ExceedsCInt(s) ==
    LET t == NoLeadingZeros(s)
        m == IntToText(MaxCInt)
    IN  \/ Len(t) > Len(m)
        \/ /\ Len(t) = Len(m)
           /\ \E i \in DOMAIN t :
                /\ DigitValue(t[i]) > DigitValue(m[i])
                /\ \A j \in 1..(i - 1) : t[j] = m[j]

\* _parse_date_to_ordinal(s): the ordinal, None, or Raised when int() or
\* datetime() raises what the except clause does not catch.
ParseDateToOrdinal(s) ==
    IF s = None \/ s = <<>> \/ Strip(s) = <<>> THEN NoneOrdinal
    ELSE LET parts == Split(Strip(s), "-")
             hasMonth == Len(parts) >= 2 /\ IsDigit(parts[2])
             hasDay == Len(parts) >= 3 /\ IsDigit(parts[3])
         IN  IF IsDigit(parts[1])
             THEN IF \/ ~IsDecimal(parts[1])
                     \/ hasMonth /\ ~IsDecimal(parts[2])
                     \/ hasDay /\ ~IsDecimal(parts[3])
                  THEN Raised
                  ELSE LET year == ToInt(parts[1])
                           month == IF hasMonth THEN ToInt(parts[2]) ELSE 1
                           day == IF hasDay THEN ToInt(parts[3]) ELSE 1
                       IN  IF \/ ExceedsCInt(parts[1])
                              \/ hasMonth /\ ExceedsCInt(parts[2])
                              \/ hasDay /\ ExceedsCInt(parts[3])
                           THEN Raised
                           ELSE IF ValidDate(year, month, day)
                           THEN ToOrdinal(year, month, day)
                           ELSE NoneOrdinal
             ELSE NoneOrdinal

\* The text strptime's %d reads: one or two digits, or a space and a digit.
IsDayField(s) ==
    \/ IsDecimal(s) /\ Len(s) <= 2
    \/ Len(s) = 2 /\ s[1] = " " /\ IsDecimal(<<s[2]>>)

DayFieldValue(s) == IF s[1] = " " THEN ToInt(<<s[2]>>) ELSE ToInt(s)

\* datetime.strptime(s, "%Y/%m/%d").date().toordinal(), or NoneOrdinal where
\* strptime raises ValueError.
StrptimeSlashOrdinal(s) ==
         LET parts == Split(s, "/")
         IN  IF /\ Len(parts) = 3
                /\ IsDecimal(parts[1]) /\ Len(parts[1]) = 4
                /\ IsDecimal(parts[2]) /\ Len(parts[2]) <= 2
                /\ IsDayField(parts[3])
                /\ ValidDate(ToInt(parts[1]), ToInt(parts[2]), DayFieldValue(parts[3]))
             THEN ToOrdinal(ToInt(parts[1]), ToInt(parts[2]), DayFieldValue(parts[3]))
             ELSE NoneOrdinal

\* date.strftime("%Y/%m/%d")
SlashDateString(y, m, d) ==
    ZFill(IntToText(y), 4) \o <<"/">> \o ZFill(IntToText(m), 2)
        \o <<"/">> \o ZFill(IntToText(d), 2)

-----------------------------------------------------------------------------
(* parse_pubmed_xml: the dates of a PubmedArticle.  An element's text is a  *)
(* tuple of characters, <<>> where the element is missing (_safe_text).     *)

NoElement == [missing |-> TRUE]

MonthNames ==
    << <<"J","a","n">>, <<"F","e","b">>, <<"M","a","r">>, <<"A","p","r">>,
       <<"M","a","y">>, <<"J","u","n">>, <<"J","u","l">>, <<"A","u","g">>,
       <<"S","e","p">>, <<"O","c","t">>, <<"N","o","v">>, <<"D","e","c">> >>

\* month_to_num(mm) of _parse_pub_date
MonthToNum(mm) ==
    LET t == Strip(mm)
        head == SubSeq(t, 1, IF Len(t) < 3 THEN Len(t) ELSE 3)
    IN  IF IsDigit(t) THEN ZFill(t, 2)
        ELSE IF \E k \in DOMAIN MonthNames : MonthNames[k] = head
        THEN ZFill(IntToText(CHOOSE k \in DOMAIN MonthNames : MonthNames[k] = head), 2)
        ELSE None

\* The first token of a MedlineDate that is four digits, or None.
RECURSIVE MedlineYear(_)
MedlineYear(tokens) ==
    IF tokens = <<>> THEN None
    ELSE IF IsDigit(Head(tokens)) /\ Len(Head(tokens)) = 4 THEN Head(tokens)
    ELSE MedlineYear(Tail(tokens))

\* The Journal/JournalIssue/PubDate branch of _parse_pub_date.
JournalDateString(pd) ==
    IF pd.Year # <<>>
    THEN LET mn == IF pd.Month # <<>> THEN MonthToNum(pd.Month) ELSE None
         IN  IF mn # None /\ pd.Day # <<>> /\ IsDigit(pd.Day)
                 THEN pd.Year \o <<"-">> \o mn \o <<"-">> \o ZFill(pd.Day, 2)
             ELSE IF mn # None THEN pd.Year \o <<"-">> \o mn
             ELSE pd.Year
    ELSE IF pd.MedlineDate # <<>>
    THEN MedlineYear(SelectSeq(Split(pd.MedlineDate, " "), LAMBDA t : t # <<>>))
    ELSE None

\* _parse_pub_date(article)
ParsePubDate(article) ==
    LET ad == article.ArticleDate
        pd == article.PubDate
        fromArticleDate ==
            IF ad = NoElement THEN None ELSE IsoDateString(ad.Year, ad.Month, ad.Day)
    IN  IF fromArticleDate # None THEN fromArticleDate
        ELSE IF pd = NoElement THEN None
        ELSE JournalDateString(pd)

\* _parse_epub_date(pubmed_article): the first PubMedPubDate whose PubStatus is
\* "epub" decides.
RECURSIVE ParseEpubDate(_)
ParseEpubDate(history) ==
    IF history = <<>> THEN None
    ELSE IF Head(history).PubStatus # "epub" THEN ParseEpubDate(Tail(history))
    ELSE IsoDateString(Head(history).Year, Head(history).Month, Head(history).Day)

\* A parser that gives up the batch at the first article it cannot use.
RECURSIVE ParsePubmedXmlStopping(_)
ParsePubmedXmlStopping(pubmed_articles) ==
    IF pubmed_articles = <<>> THEN <<>>
    ELSE LET a == Head(pubmed_articles)
         IN  IF a.PMID = "" \/ a.Article = NoElement
             THEN <<>>
             ELSE <<[pmid |-> a.PMID,
                     pub_date |-> ParsePubDate(a.Article),
                     epub_date |-> ParseEpubDate(a.History)]>>
                  \o ParsePubmedXmlStopping(Tail(pubmed_articles))

\* parse_pubmed_xml, for the fields the window filter reads.
RECURSIVE ParsePubmedXml(_)
ParsePubmedXml(pubmed_articles) ==
    IF pubmed_articles = <<>> THEN <<>>
    ELSE LET a == Head(pubmed_articles)
         IN  IF a.PMID = "" \/ a.Article = NoElement
             THEN ParsePubmedXml(Tail(pubmed_articles))
             ELSE <<[pmid |-> a.PMID,
                     pub_date |-> ParsePubDate(a.Article),
                     epub_date |-> ParseEpubDate(a.History)]>>
                  \o ParsePubmedXml(Tail(pubmed_articles))

-----------------------------------------------------------------------------
(* Calendar days <<year, month, day>>: the clock's date and its arithmetic. *)

PrevDay(t) ==
    IF t[3] > 1 THEN <<t[1], t[2], t[3] - 1>>
    ELSE IF t[2] > 1 THEN <<t[1], t[2] - 1, DaysInMonth(t[1], t[2] - 1)>>
    ELSE <<t[1] - 1, 12, 31>>

NextDay(t) ==
    IF t[3] < DaysInMonth(t[1], t[2]) THEN <<t[1], t[2], t[3] + 1>>
    ELSE IF t[2] < 12 THEN <<t[1], t[2] + 1, 1>>
    ELSE <<t[1] + 1, 1, 1>>

\* day - timedelta(days=n)
RECURSIVE MinusDays(_, _)
MinusDays(t, n) == IF n = 0 THEN t ELSE MinusDays(PrevDay(t), n - 1)

\* The length of the default window of esearch and ingest_profile, in days.
WindowDays == 30

-----------------------------------------------------------------------------
(* Inputs of the window filter: requested windows, clock days and the       *)
(* PubmedArticle elements efetch returns.                                   *)

WindowJanFeb == << <<2026, 1, 1>>, <<2026, 2, 16>> >>
WindowLeapYear == << <<2024, 3, 1>>, <<2024, 12, 31>> >>

\* The UTC days ingest_profile runs on.
Todays == {<<2026, 2, 16>>, <<2024, 3, 30>>}

ProfileWindows == {<<MinusDays(t, WindowDays), t>> : t \in Todays}

\* A day written without leading zeros, which strptime reads as well.
SlashDateUnpadded(t) ==
    IntToText(t[1]) \o <<"/">> \o IntToText(t[2]) \o <<"/">> \o IntToText(t[3])

\* mindate / maxdate as the caller of one_off_search_with_competitors gives
\* them: well-formed, inverted, unpadded, and two that strptime rejects.
WindowRequests ==
    { <<SlashDateString(2026, 1, 1), SlashDateString(2026, 2, 16)>>,
      <<SlashDateString(2024, 3, 1), SlashDateString(2024, 12, 31)>>,
      <<SlashDateString(2026, 2, 16), SlashDateString(2026, 1, 1)>>,
      <<SlashDateUnpadded(<<2026, 1, 1>>), SlashDateUnpadded(<<2026, 2, 16>>)>>,
      << <<"2","0","2","6","-","0","1","-","0","1">>, SlashDateString(2026, 2, 16)>>,
      <<SlashDateString(2026, 1, 1), <<"2","0","2","6","/","0","2","/","3","0">> >> }

\* The days around the ends of every window.
BoundaryDays ==
    UNION {{PrevDay(w[1]), w[1], w[2], NextDay(w[2])} :
              w \in {WindowJanFeb, WindowLeapYear} \cup ProfileWindows}

DateElement(y, m, d) == [Year |-> y, Month |-> m, Day |-> d]

DayElement(t) == DateElement(IntToText(t[1]), IntToText(t[2]), IntToText(t[3]))

PubDateElement(y, m, d, medline) ==
    [Year |-> y, Month |-> m, Day |-> d, MedlineDate |-> medline]

HistoryEntry(status, el) ==
    [PubStatus |-> status, Year |-> el.Year, Month |-> el.Month, Day |-> el.Day]

PubmedArticle(pmid, ad, pd, history) ==
    [PMID |-> pmid, Article |-> [ArticleDate |-> ad, PubDate |-> pd], History |-> history]

NotADate == <<"n", ".", "d", ".">>

\* Articles with a print date only, one per boundary day.
DayArticles == {PubmedArticle("101", DayElement(t), NoElement, <<>>) : t \in BoundaryDays}

\* Articles whose print date is partial, takes the journal branch, is no
\* calendar day, is missing, or makes the normalizer raise.
OddArticles ==
    { PubmedArticle("101", DateElement(IntToText(2026), <<>>, <<>>), NoElement, <<>>),
      PubmedArticle("101", DateElement(IntToText(2026), IntToText(2), <<>>), NoElement, <<>>),
      PubmedArticle("101", NoElement,
          PubDateElement(IntToText(2026), <<"F","e","b">>, IntToText(17), <<>>), <<>>),
      PubmedArticle("101", NoElement,
          PubDateElement(IntToText(2025), <<"W","i","n","t","e","r">>, <<>>, <<>>), <<>>),
      PubmedArticle("101", DateElement(<<>>, IntToText(1), IntToText(1)),
          PubDateElement(<<>>, <<>>, <<>>,
              <<"J","a","n","-","F","e","b"," ","2","0","2","4">>), <<>>),
      PubmedArticle("101", NoElement,
          PubDateElement(<<>>, <<>>, <<>>, <<"S","p","r","i","n","g">>), <<>>),
      PubmedArticle("101", NoElement, NoElement, <<>>),
      PubmedArticle("101", DateElement(IntToText(2026), IntToText(2), IntToText(30)),
          NoElement, <<>>),
      PubmedArticle("101", DateElement(NotADate, IntToText(1), IntToText(1)), NoElement, <<>>),
      PubmedArticle("101", DateElement(<<"2", "0", "2", SuperscriptTwo>>, <<>>, <<>>),
          NoElement, <<>>),
      PubmedArticle("101", DateElement(<<"2","1","4","7","4","8","3","6","4","8">>, IntToText(1), IntToText(1)),
          NoElement, <<>>),
      PubmedArticle("", DayElement(WindowJanFeb[1]), NoElement, <<>>) }

\* Articles with an electronic and a print date on either side of a window.
EpubArticles ==
    { PubmedArticle("101", DayElement(p), NoElement,
          <<HistoryEntry("received", DayElement(WindowJanFeb[1])),
            HistoryEntry("epub", e)>>) :
        p \in {PrevDay(WindowJanFeb[1]), WindowJanFeb[2]},
        e \in {DayElement(PrevDay(WindowJanFeb[1])), DayElement(WindowJanFeb[1]),
               DayElement(NextDay(WindowJanFeb[2])),
               DateElement(NotADate, <<>>, <<>>)} }
    \cup
    { PubmedArticle("101", DayElement(PrevDay(WindowJanFeb[1])), NoElement,
          <<HistoryEntry("epub", DateElement(<<>>, IntToText(1), IntToText(1))),
            HistoryEntry("epub", DayElement(WindowJanFeb[1]))>>) }

PubmedArticles == DayArticles \cup OddArticles \cup EpubArticles

-----------------------------------------------------------------------------
(* The window re-application of one_off_search_with_competitors and of      *)
(* ingest_profile.                                                          *)

\* rec.epub_date or rec.pub_date
FirstPubPrintFirst(rec) ==
    IF rec.pub_date # None /\ rec.pub_date # <<>> THEN rec.pub_date ELSE rec.epub_date

FirstPub(rec) ==
    IF rec.epub_date # None /\ rec.epub_date # <<>> THEN rec.epub_date ELSE rec.pub_date

\* start_ord <= ord_val <= end_ord
InOrdinalRangeOpenStart(lo, ord_val, hi) == lo < ord_val /\ ord_val <= hi

InOrdinalRange(lo, ord_val, hi) == lo <= ord_val /\ ord_val <= hi

\* The loop over all_records: the records appended to in_window, and whether
\* _parse_date_to_ordinal raised on the way.
RECURSIVE FilterLoop(_, _, _)
FilterLoop(records, lo, hi) ==
    IF records = <<>> THEN [raised |-> FALSE, in_window |-> <<>>]
    ELSE LET rec == Head(records)
             first_pub == FirstPub(rec)
             ord_val == ParseDateToOrdinal(first_pub)
             rest == FilterLoop(Tail(records), lo, hi)
         IN  IF ord_val = Raised THEN [raised |-> TRUE, in_window |-> <<>>]
             ELSE IF rest.raised THEN rest
             ELSE IF ord_val = NoneOrdinal \/ InOrdinalRange(lo, ord_val, hi)
             THEN [raised |-> FALSE, in_window |-> <<rec>> \o rest.in_window]
             ELSE rest

\* one_off_search_with_competitors up to the fetch loop: esearch is sent the
\* strings as given, strptime reads both before either ordinal is assigned.
OneOffSearch(min, max) ==
    /\ wpc = "idle"
    /\ mindate' = min
    /\ maxdate' = max
    /\ LET s == StrptimeSlashOrdinal(min)
           e == StrptimeSlashOrdinal(max)
           parsed == s # NoneOrdinal /\ e # NoneOrdinal
       IN  /\ start_ord' = IF parsed THEN s ELSE NoneOrdinal
           /\ end_ord' = IF parsed THEN e ELSE NoneOrdinal
    /\ all_records' = <<>>
    /\ wpc' = "one_off"
    /\ UNCHANGED <<in_window, today>>

\* ingest_profile up to the fetch loop: esearch reads the clock (searchDay) and
\* sends its own default window, then ingest_profile reads the clock again.
IngestProfileSearch(searchDay, day) ==
    /\ wpc = "idle"
    /\ mindate' = LET start_date == MinusDays(searchDay, WindowDays)
                  IN  SlashDateString(start_date[1], start_date[2], start_date[3])
    /\ maxdate' = SlashDateString(searchDay[1], searchDay[2], searchDay[3])
    /\ today' = day
    /\ LET start_date == MinusDays(day, WindowDays)
       IN  start_ord' = ToOrdinal(start_date[1], start_date[2], start_date[3])
    /\ end_ord' = ToOrdinal(day[1], day[2], day[3])
    /\ all_records' = <<>>
    /\ wpc' = "profile"
    /\ UNCHANGED in_window

\* One turn of the fetch loop: efetch returns a batch, parse_pubmed_xml reads
\* it, all_records is extended.
Efetch(xml) ==
    /\ wpc \in {"one_off", "profile"}
    /\ Len(all_records) + Len(xml) <= MaxRecords
    /\ all_records' = all_records \o ParsePubmedXml(xml)
    /\ UNCHANGED <<mindate, maxdate, in_window, today, start_ord, end_ord, wpc>>

\* The filter of one_off_search_with_competitors, after the last batch.
FilterOneOff ==
    /\ wpc = "one_off"
    /\ IF start_ord # NoneOrdinal /\ end_ord # NoneOrdinal
       THEN LET r == FilterLoop(all_records, start_ord, end_ord)
            IN  /\ in_window' = r.in_window
                /\ wpc' = IF r.raised THEN "raised" ELSE "filtered"
       ELSE /\ in_window' = all_records
            /\ wpc' = "filtered"
    /\ UNCHANGED <<mindate, maxdate, all_records, today, start_ord, end_ord>>

\* The filter of ingest_profile, after the last batch.
FilterProfile ==
    /\ wpc = "profile"
    /\ LET r == FilterLoop(all_records, start_ord, end_ord)
       IN  /\ in_window' = r.in_window
           /\ wpc' = IF r.raised THEN "raised" ELSE "filtered"
    /\ UNCHANGED <<mindate, maxdate, all_records, today, start_ord, end_ord>>

NextWindow ==
    \/ (\E w \in WindowRequests : OneOffSearch(w[1], w[2]))
            /\ UNCHANGED <<storeVars, txVars, searchVars, runVars, auxVars>>
    \/ (\E day \in Todays : \E searchDay \in {PrevDay(day), day} :
            IngestProfileSearch(searchDay, day)) /\ UNCHANGED <<storeVars, txVars, searchVars, runVars, auxVars>>
    \/ (\E xml \in SeqsUpTo(PubmedArticles, MaxRecords) : Efetch(xml))
            /\ UNCHANGED <<storeVars, txVars, searchVars, runVars, auxVars>>
    \/ FilterOneOff /\ UNCHANGED <<storeVars, txVars, searchVars, runVars, auxVars>>
    \/ FilterProfile /\ UNCHANGED <<storeVars, txVars, searchVars, runVars, auxVars>>

SpecWindow == Init /\ [][NextWindow]_vars

-----------------------------------------------------------------------------
(* Properties of the window filter.                                         *)

\* Calendar order of two days, read off year, month and day.
Before(a, b) ==
    \/ a[1] < b[1]
    \/ a[1] = b[1] /\ a[2] < b[2]
    \/ a[1] = b[1] /\ a[2] = b[2] /\ a[3] < b[3]

Inside(e, w) == ~Before(e, w[1]) /\ ~Before(w[2], e)

\* The yyyy-mm-dd string of a calendar day.
IsoDay(t) ==
    ZFill(IntToText(t[1]), 4) \o <<"-">> \o ZFill(IntToText(t[2]), 2)
        \o <<"-">> \o ZFill(IntToText(t[3]), 2)

\* The days a requested window can start or end on.
WindowEnds ==
    UNION {{w[1], w[2]} : w \in {WindowJanFeb, WindowLeapYear} \cup ProfileWindows}

ReadsAs(text, t) ==
    text = SlashDateString(t[1], t[2], t[3]) \/ text = SlashDateUnpadded(t)

\* The windows [A, B] the finished run filtered by: the one its caller asked
\* for, or the 30 days that end on the day ingest_profile read.
FilterWindows ==
    {w \in WindowEnds \X WindowEnds :
        IF today # <<>>
        THEN w = <<MinusDays(today, WindowDays), today>>
        ELSE ReadsAs(mindate, w[1]) /\ ReadsAs(maxdate, w[2])}

EffectiveDate(rec) == IF rec.epub_date # None THEN rec.epub_date ELSE rec.pub_date

\* Date strings that name no calendar day, year or month.
UnparseableDates ==
    { None, NotADate, NotADate \o <<"-","0","1","-","0","1">>,
      IntToText(2026) \o <<"-","0","2","-","3","0">> }

Kept(rec) == rec \in Range(in_window)

C10_EpubDecides ==
    wpc = "filtered" =>
        \A w \in FilterWindows : \A i \in DOMAIN all_records :
            \A e \in BoundaryDays, p \in BoundaryDays :
                LET rec == all_records[i]
                IN  rec.epub_date = IsoDay(e) /\ rec.pub_date = IsoDay(p) =>
                        /\ Before(e, w[1]) /\ Inside(p, w) => ~Kept(rec)
                        /\ Inside(e, w) /\ ~Inside(p, w) => Kept(rec)

\* A finished run that fetched a record with epub before and print inside the
\* window and a record with epub inside and print before it, and kept only the
\* second.
C10_Witness ==
    /\ wpc = "filtered"
    /\ WindowJanFeb \in FilterWindows
    /\ Len(all_records) = 2
    /\ all_records[1].epub_date = IsoDay(PrevDay(WindowJanFeb[1]))
    /\ all_records[1].pub_date = IsoDay(WindowJanFeb[2])
    /\ all_records[2].epub_date = IsoDay(WindowJanFeb[1])
    /\ all_records[2].pub_date = IsoDay(PrevDay(WindowJanFeb[1]))
    /\ in_window = <<all_records[2]>>

-----------------------------------------------------------------------------
(* ClinicalTrials.gov: _parse_ct_date_to_ordinal, _parse_study and the       *)
(* window filter of search_studies.                                          *)

\* The text strptime's %m reads: one or two digits.
IsMonthField(s) == IsDecimal(s) /\ Len(s) <= 2

\* _dt.strptime(date_str, fmt).date().toordinal() for the format with this
\* many fields (%Y-%m-%d, %Y-%m, %Y), or NoneOrdinal for ValueError.
StrptimeDashOrdinal(date_str, fields) ==
    LET parts == Split(date_str, "-")
    IN  IF /\ Len(parts) = fields
           /\ IsDecimal(parts[1]) /\ Len(parts[1]) = 4
           /\ fields >= 2 => IsMonthField(parts[2])
           /\ fields >= 3 => IsDayField(parts[3])
        THEN LET year == ToInt(parts[1])
                 month == IF fields >= 2 THEN ToInt(parts[2]) ELSE 1
                 day == IF fields >= 3 THEN DayFieldValue(parts[3]) ELSE 1
             IN  IF ValidDate(year, month, day)
                 THEN ToOrdinal(year, month, day)
                 ELSE NoneOrdinal
        ELSE NoneOrdinal

\* A normalizer that tries the full format only.
ParseCtDateFullOnly(date_str) ==
    IF date_str = None \/ date_str = <<>> THEN NoneOrdinal
    ELSE StrptimeDashOrdinal(date_str, 3)

\* _parse_ct_date_to_ordinal(date_str): the first format that parses decides.
ParseCtDateToOrdinal(date_str) ==
    IF date_str = None \/ date_str = <<>> THEN NoneOrdinal
    ELSE IF StrptimeDashOrdinal(date_str, 3) # NoneOrdinal
        THEN StrptimeDashOrdinal(date_str, 3)
    ELSE IF StrptimeDashOrdinal(date_str, 2) # NoneOrdinal
        THEN StrptimeDashOrdinal(date_str, 2)
    ELSE StrptimeDashOrdinal(date_str, 1)

\* _parse_study(study), for the fields search_studies reads; <<>> where it
\* returns None.  A study is [nctId, studyFirstPostDate, startDate].
ParseStudy(study) ==
    IF study.nctId = "" THEN <<>>
    ELSE <<[nct_id |-> study.nctId,
            first_posted |-> study.studyFirstPostDate,
            start_date |-> study.startDate]>>

\* r.start_date alone
KeyDateStartOnly(r) == r.start_date

\* r.first_posted or r.start_date
KeyDate(r) ==
    IF r.first_posted # None /\ r.first_posted # <<>> THEN r.first_posted ELSE r.start_date

\* The loop that builds `filtered`.
RECURSIVE CtFilterLoop(_, _, _)
CtFilterLoop(recs, lo, hi) ==
    IF recs = <<>> THEN <<>>
    ELSE LET r == Head(recs)
             ord_val == ParseCtDateToOrdinal(KeyDate(r))
         IN  IF ord_val = NoneOrdinal \/ (lo <= ord_val /\ ord_val <= hi)
             THEN <<r>> \o CtFilterLoop(Tail(recs), lo, hi)
             ELSE CtFilterLoop(Tail(recs), lo, hi)

\* `if start_date and end_date` with both ordinals parsed, else records as is.
CtWindowFilter(recs, sd, ed) ==
    IF sd # None /\ sd # <<>> /\ ed # None /\ ed # <<>>
    THEN LET lo == ParseCtDateToOrdinal(sd)
             hi == ParseCtDateToOrdinal(ed)
         IN  IF lo # NoneOrdinal /\ hi # NoneOrdinal
             THEN CtFilterLoop(recs, lo, hi)
             ELSE recs
    ELSE recs

\* An early exit that returns the candidates as collected.
EarlyExitUnfiltered(recs, sd, ed) == recs

\* The filter of the early exit (lines 165-176).
EarlyExitFilter(recs, sd, ed) == CtWindowFilter(recs, sd, ed)

\* The filter after the last page (lines 185-195).
FinalFilter(recs, sd, ed) == CtWindowFilter(recs, sd, ed)

-----------------------------------------------------------------------------
(* search_studies: pagination, the max_studies cap and the two exits.        *)

\* An upstream that never runs out of continuation tokens.
Endless == -1

\* `max_studies and len(records) >= max_studies`, checked one study late.
CapReachedLate(ms, recs) == ms # <<>> /\ ms[1] # 0 /\ Len(recs) > ms[1]

\* `max_studies and len(records) >= max_studies`
CapReached(ms, recs) == ms # <<>> /\ ms[1] # 0 /\ Len(recs) >= ms[1]

\* The loop over the studies of one page: the candidates after it, and
\* whether it left through the early exit.
RECURSIVE ProcessStudies(_, _, _)
ProcessStudies(studies, recs, ms) ==
    IF studies = <<>> THEN [early |-> FALSE, records |-> recs, unread |-> 0]
    ELSE LET next == recs \o ParseStudy(Head(studies))
         IN  IF CapReached(ms, next)
             THEN [early |-> TRUE, records |-> next, unread |-> Len(studies) - 1]
             ELSE ProcessStudies(Tail(studies), next, ms)

\* A loop that goes on after an empty token.
PaginationEndsOnNone(token) == token = None

\* `if not page_token: break`
PaginationEnds(token) == token = None \/ token = <<>>

\* The call, up to the first request.
SearchStudies(ms, sd, ed, pages) ==
    /\ spc = "idle"
    /\ max_studies' = ms
    /\ ct_start_date' = sd
    /\ ct_end_date' = ed
    /\ ct_records' = <<>>
    /\ page_token' = None
    /\ returned' = <<>>
    /\ unread' = 0
    /\ upstream' = pages
    /\ spc' = "paging"

\* One turn of `while True`: the request answered with data, its studies
\* parsed, and the return through either exit when the turn ends the call.
RequestPage(data) ==
    /\ spc = "paging"
    /\ Len(ct_records) + Len(data.studies) <= MaxCandidates
    /\ data.nextPageToken # None /\ data.nextPageToken # <<>> => upstream # 0
    /\ LET r == ProcessStudies(data.studies, ct_records, max_studies)
       IN  /\ ct_records' = r.records
           /\ unread' = r.unread
           /\ IF r.early
              THEN /\ returned' = EarlyExitFilter(r.records, ct_start_date, ct_end_date)
                   /\ spc' = "early"
                   /\ UNCHANGED <<page_token, upstream>>
              ELSE /\ page_token' = data.nextPageToken
                   /\ IF PaginationEnds(data.nextPageToken)
                      THEN /\ returned' = FinalFilter(r.records, ct_start_date, ct_end_date)
                           /\ spc' = "end"
                           /\ UNCHANGED upstream
                      ELSE /\ spc' = "paging"
                           /\ upstream' = IF upstream > 0 THEN upstream - 1 ELSE upstream
                           /\ UNCHANGED returned
    /\ UNCHANGED <<max_studies, ct_start_date, ct_end_date>>

\* requests.get or raise_for_status raises: the call ends without a value.
RequestRaises ==
    /\ spc = "paging"
    /\ spc' = "raised"
    /\ UNCHANGED <<max_studies, ct_start_date, ct_end_date, ct_records, page_token,
                   returned, unread, upstream>>

\* A day as the API writes it, yyyy-mm-dd.
IsoDateText(t) == IsoDateString(IntToText(t[1]), IntToText(t[2]), IntToText(t[3]))

\* Inputs: the window of the Jan-Feb days, as the three date shapes, None,
\* a string no format reads, and inverted.
CtWindows ==
    { <<IsoDateText(WindowJanFeb[1]), IsoDateText(WindowJanFeb[2])>>,
      <<IntToText(2026), IntToText(2026) \o <<"-", "0", "2">> >>,
      <<None, None>>,
      <<SlashDateString(2026, 1, 1), IsoDateText(WindowJanFeb[2])>>,
      <<IsoDateText(WindowJanFeb[2]), IsoDateText(WindowJanFeb[1])>> }

MaxStudiesValues == {<<>>, <<0>>, <<1>>, <<2>>}

Study(nct, first_posted, start) ==
    [nctId |-> nct, studyFirstPostDate |-> first_posted, startDate |-> start]

Studies ==
    { Study("NCT01", IsoDateText(PrevDay(WindowJanFeb[1])), IsoDateText(WindowJanFeb[1])),
      Study("NCT01", IsoDateText(WindowJanFeb[1]), IsoDateText(PrevDay(WindowJanFeb[1]))),
      Study("NCT01", IsoDateText(NextDay(WindowJanFeb[2])), None),
      Study("NCT01", None, IsoDateText(WindowJanFeb[2])),
      Study("NCT01", <<>>, IsoDateText(NextDay(WindowJanFeb[2]))),
      Study("NCT01", NotADate, IsoDateText(PrevDay(WindowJanFeb[1]))),
      Study("NCT01", None, None),
      Study("", IsoDateText(WindowJanFeb[1]), None) }

PageTokens == {None, <<>>, <<"t", "1">>, <<"t", "2">>}

Pages == [studies : SeqsUpTo(Studies, MaxPageSize), nextPageToken : PageTokens]

\* The next turn of the loop, with the page the upstream answers.
NextPage == (\E data \in Pages : RequestPage(data)) /\ UNCHANGED <<storeVars, txVars, windowVars, runVars, auxVars>>

NextSearch ==
    \/ (\E ms \in MaxStudiesValues, w \in CtWindows, pages \in (0..MaxTokenPages) \cup {Endless} :
            SearchStudies(ms, w[1], w[2], pages))
            /\ UNCHANGED <<storeVars, txVars, windowVars, runVars, auxVars>>
    \/ NextPage
    \/ RequestRaises /\ UNCHANGED <<storeVars, txVars, windowVars, runVars, auxVars>>

SpecSearch == Init /\ [][NextSearch]_vars

\* For termination the dates do not matter: pages of one study with an nctId
\* and one without, with or without a window.
TerminationStudies ==
    { Study("NCT01", IsoDateText(WindowJanFeb[1]), None),
      Study("", IsoDateText(WindowJanFeb[1]), None) }

TerminationPages ==
    [studies : SeqsUpTo(TerminationStudies, MaxPageSize), nextPageToken : PageTokens]

TerminationWindows ==
    { <<None, None>>, <<IsoDateText(WindowJanFeb[1]), None>> }

NextTerminationPage ==
    (\E data \in TerminationPages : RequestPage(data))
        /\ UNCHANGED <<storeVars, txVars, windowVars, runVars, auxVars>>

NextTermination ==
    \/ (\E ms \in MaxStudiesValues, w \in TerminationWindows,
           pages \in (0..MaxTokenPages) \cup {Endless} :
            SearchStudies(ms, w[1], w[2], pages))
            /\ UNCHANGED <<storeVars, txVars, windowVars, runVars, auxVars>>
    \/ NextTerminationPage
    \/ RequestRaises /\ UNCHANGED <<storeVars, txVars, windowVars, runVars, auxVars>>

\* The requests are answered: a call that is paging takes its next turn.
SpecSearchFair == Init /\ [][NextTermination]_vars /\ WF_vars(NextTerminationPage)

-----------------------------------------------------------------------------
(* Properties of search_studies.                                             *)

\* The days a date of the search inputs can name.
CtDays == BoundaryDays \cup {<<2026, 2, 1>>}

\* The day a yyyy-mm-dd, yyyy-mm or yyyy string stands for.
CtReadsAs(text, t) ==
    \/ text = IsoDay(t)
    \/ t[3] = 1 /\ text = ZFill(IntToText(t[1]), 4) \o <<"-">> \o ZFill(IntToText(t[2]), 2)
    \/ t[3] = 1 /\ t[2] = 1 /\ text = ZFill(IntToText(t[1]), 4)

\* The window [start, end] search_studies was given, when both ends are dates.
CtFilterWindows ==
    {w \in CtDays \X CtDays : CtReadsAs(ct_start_date, w[1]) /\ CtReadsAs(ct_end_date, w[2])}

ComparisonDate(r) ==
    IF r.first_posted \notin {None, <<>>} THEN r.first_posted ELSE r.start_date

CtUnparseableDates == {None, <<>>, NotADate}

SearchReturned == spc \in {"early", "end"}

\* C11: when search_studies has returned and was given a start and an end
\* date, every returned record has a comparison date (first_posted if present,
\* else start_date) that is unparseable or a day inside [start, end], every
\* candidate whose comparison date is a day outside the window is absent from
\* the result, and every candidate with an unparseable comparison date is in it.
C11_CtWindowFilter ==
    SearchReturned =>
        \A w \in CtFilterWindows :
            /\ \A i \in DOMAIN returned :
                \/ ComparisonDate(returned[i]) \in CtUnparseableDates
                \/ \E e \in CtDays :
                    ComparisonDate(returned[i]) = IsoDay(e) /\ Inside(e, w)
            /\ \A i \in DOMAIN ct_records :
                LET r == ct_records[i]
                IN  /\ ComparisonDate(r) \in CtUnparseableDates => r \in Range(returned)
                    /\ \A e \in CtDays :
                        ComparisonDate(r) = IsoDay(e) /\ ~Inside(e, w)
                            => r \notin Range(returned)

\* A returned search over the Jan-Feb window that collected a candidate posted
\* the day before the window, one posted on its first day and one with an
\* unparseable first_posted, and returned the last two.
C11_Witness ==
    /\ SearchReturned
    /\ WindowJanFeb \in CtFilterWindows
    /\ Len(ct_records) = 3
    /\ ct_records[1].first_posted = IsoDay(PrevDay(WindowJanFeb[1]))
    /\ ct_records[2].first_posted = IsoDay(WindowJanFeb[1])
    /\ ct_records[3].first_posted = NotADate
    /\ returned = <<ct_records[2], ct_records[3]>>

\* C12: with max_studies = N, search_studies never holds more than N
\* candidates, is not about to request a further page once it holds N, and
\* returns a list no longer than the candidates it collected.
C12_CapBoundsCandidates ==
    /\ max_studies # <<>> =>
        /\ Len(ct_records) <= max_studies[1]
        /\ spc = "paging" /\ page_token # None => Len(ct_records) < max_studies[1]
    /\ SearchReturned => Len(returned) <= Len(ct_records)

\* What the window filter keeps: every record when no window of two dates was
\* given, else the records whose comparison date is unparseable or inside.
InCtWindow(r) ==
    \A w \in CtFilterWindows :
        \/ ComparisonDate(r) \in CtUnparseableDates
        \/ \E e \in CtDays : ComparisonDate(r) = IsoDay(e) /\ Inside(e, w)

\* C13: whether search_studies left through the early exit on reaching
\* max_studies or through the end of pagination, what it returned is the
\* window filter applied to all candidates collected so far, in fetch order;
\* so the same candidates and window give the same result on both paths.
C13_BothExitsFilter ==
    /\ spc = "early" => returned = SelectSeq(ct_records, InCtWindow)
    /\ spc = "end" => returned = SelectSeq(ct_records, InCtWindow)

\* An early exit in the middle of a page, with a window given, that dropped a
\* candidate.
C13_Witness ==
    /\ spc = "early"
    /\ unread > 0
    /\ WindowJanFeb \in CtFilterWindows
    /\ Len(ct_records) = 2
    /\ Len(returned) = 1

\* C14 as stated: whatever pages the upstream serves, a search_studies call
\* that is paging eventually stops paging.
C14_SearchAlwaysReturns == (spc = "paging") ~> (spc # "paging")

\* C14, amended: a call keeps paging only while the last page carried a
\* continuation token and, with max_studies >= 1, fewer than max_studies
\* candidates are held; and against an upstream that serves finitely many
\* pages with a token, a call that is paging eventually stops paging, also
\* when pages carry no parseable study and max_studies is None or 0.
C14_SearchReturnsWhenTokensEnd ==
    /\ [][spc = "paging" /\ spc' = "paging" =>
            /\ page_token' \notin {None, <<>>}
            /\ max_studies # <<>> /\ max_studies[1] >= 1
                    => Len(ct_records') < max_studies[1]]_vars
    /\ (spc = "paging" /\ upstream # Endless) ~> (spc # "paging")

\* A call without a cap that returned at the end of pagination of a finite
\* upstream, after more studies than one page carries.
C14_Witness ==
    /\ spc = "end"
    /\ max_studies \in {<<>>, <<0>>}
    /\ upstream # Endless
    /\ Len(ct_records) > MaxPageSize

-----------------------------------------------------------------------------
(* The affiliation rows of a trial.                                        *)

\* The lead sponsor name followed by the collaborator names, as the record
\* gives them.
GivenNames(rec) == <<rec.lead_sponsor_name>> \o rec.collaborator_names

\* The non-empty entries of s, each distinct one where it first stands.
FirstOccurrences(s) ==
    LET kept == SelectSeq(s, LAMBDA n : n # <<>>)
        idx == {i \in DOMAIN kept : \A j \in 1..(i - 1) : kept[j] # kept[i]}
        nth(k) == CHOOSE i \in idx : Cardinality({j \in idx : j < i}) = k - 1
    IN  [k \in 1..Cardinality(idx) |-> kept[nth(k)]]

StrippedNames(rec) == [i \in DOMAIN GivenNames(rec) |-> Strip(GivenNames(rec)[i])]

NoRepeatedText(texts) ==
    \A i, j \in DOMAIN texts : texts[i] = texts[j] => i = j

CtgovDocIds == {CtgovDocId(r) : r \in CTRecords}

\* C15 as stated: after upsert_ctgov_records the affiliation rows of a trial
\* are its lead sponsor name and collaborator names as given, in order, the
\* empty ones omitted, each distinct string once; no two rows carry the same
\* text.
C15_RowsAreGivenNames ==
    \A d \in CtgovDocIds :
        last[d] # NoUpsert =>
            /\ AffiliationTexts(affiliations, d) = FirstOccurrences(GivenNames(last[d].rec))
            /\ NoRepeatedText(AffiliationTexts(affiliations, d))

\* C15, amended: after upsert_ctgov_records the affiliation rows of a trial
\* are its lead sponsor name and collaborator names with surrounding
\* whitespace stripped, in their given order, the names that are empty after
\* stripping omitted and each distinct stripped string once; no two rows of a
\* trial carry the same text.
C15_RowsAreStrippedNames ==
    \A d \in CtgovDocIds :
        last[d] # NoUpsert =>
            /\ AffiliationTexts(affiliations, d) = FirstOccurrences(StrippedNames(last[d].rec))
            /\ NoRepeatedText(AffiliationTexts(affiliations, d))

\* A trial whose collaborator repeats the lead sponsor with blanks around
\* the name was upserted: one row for the two of them, then the other
\* collaborator.
C15_Witness ==
    /\ last["NCT:NCT01"] # NoUpsert
    /\ last["NCT:NCT01"].rec.lead_sponsor_name = NameAcme
    /\ last["NCT:NCT01"].rec.collaborator_names = <<NameAcmePadded, NameUcb>>
    /\ AffiliationTexts(affiliations, "NCT:NCT01") = <<NameAcme, NameUcb>>

-----------------------------------------------------------------------------
(* Ingestion runs: ingest_profile, one_off_search_with_competitors and     *)
(* one_off_ctgov_search, from the call to the return or the exception.     *)
(* Calls follow one another; the commit of ensure_snapshot takes a tick.   *)

\* The code point of a character of an id or of a created_at text.
CharCode(c) ==
    CASE c = "+" -> 43 [] c = "-" -> 45 [] c = "." -> 46 [] c = ":" -> 58
      [] c = "T" -> 84 [] c = "Z" -> 90 [] OTHER -> 48 + DigitValue(c)

\* a < b as SQLite and Python compare two texts: by the first character
\* that differs, the shorter first when one is the start of the other.
RECURSIVE LexLess(_, _)
LexLess(a, b) ==
    IF b = <<>> THEN FALSE
    ELSE IF a = <<>> THEN TRUE
    ELSE IF Head(a) = Head(b) THEN LexLess(Tail(a), Tail(b))
    ELSE CharCode(Head(a)) < CharCode(Head(b))

\* get_latest_snapshot_id(): SELECT snapshot_id FROM snapshots ORDER BY
\* created_at DESC LIMIT 1; the ids it may return (None for no row; any of
\* the rows that share the greatest created_at).
GetLatestSnapshotId(snaps) ==
    IF snaps = {} THEN {None}
    ELSE {r.snapshot_id : r \in {r \in snaps :
                                    \A q \in snaps : ~ LexLess(r.created_at, q.created_at)}}

\* The id ensure_snapshot returns: the one given, or the clock read at t1.
EnsuredId(snapshot_id, t1) ==
    IF snapshot_id = None THEN SnapshotIdOf(Now(t1)) ELSE snapshot_id

\* ensure_snapshot(snapshot_id, notes): the clock is read at t1 for the id
\* (when none is given) and at t2 for created_at; INSERT OR IGNORE, commit.
EnsureSnapshotCall(snapshot_id, notes, t1, t2) ==
    LET sid == EnsuredId(snapshot_id, t1)
        row == [snapshot_id |-> sid, created_at |-> IsoFormat(Now(t2)), notes |-> notes]
    IN  /\ clock <= t1 /\ t1 <= t2 /\ t2 <= MaxClock
        /\ snapshot_id # None => t1 = t2
        /\ snapshots' = InsertOrIgnoreSnapshot(snapshots, row)
        /\ clock' = t2 + 1
        /\ ensured' =
              [last |-> [given |-> snapshot_id, notes |-> notes, returned |-> sid,
                         inserted |-> ~ \E r \in snapshots : SnapshotKey(r) = sid,
                         again |-> snapshot_id = None /\ sid \in ensured.generated],
               generated |-> IF snapshot_id = None
                             THEN ensured.generated \cup {sid}
                             ELSE ensured.generated]

NotesInitial == <<"Initial DB creation snapshot">>
NotesProfile == <<"PubMed ingest for profile">>
NotesOneOff == <<"One-off PubMed ingest for query">>
NotesCtgov == <<"ClinicalTrials.gov ingest">>

\* An id a caller makes up.
ManualId == <<"m","a","n","u","a","l">>

\* The ids a caller may pass: none, one it made up, one of a snapshot that
\* exists ("add to latest").
GivenIds == {None, ManualId} \cup SnapshotIdsOf(snapshots)

Ticks == 0..MaxClock

BetweenRuns == run.pc \in {"idle", "returned", "raised"}

\* The next run, or lone call, may begin.
MayStart == BetweenRuns /\ run.started < MaxRuns

\* ensure_snapshot called on its own, as init_db's main does.
EnsureSnapshotAlone(snapshot_id, notes, t1, t2) ==
    /\ MayStart
    /\ EnsureSnapshotCall(snapshot_id, notes, t1, t2)
    /\ run' = [RunIdle EXCEPT !.started = run.started + 1]
    /\ UNCHANGED <<documents, affiliations, competitor_aliases, competitor_mentions,
                   ret, last, prev, monitoring_profiles>>

\* ingest_profile up to esearch: the profile is looked up, then the snapshot
\* is ensured.
IngestProfile(profile_id, snapshot_id, t1, t2) ==
    /\ MayStart
    /\ IF profile_id \in DOMAIN monitoring_profiles
            /\ monitoring_profiles[profile_id].is_active
       THEN /\ EnsureSnapshotCall(snapshot_id, NotesProfile, t1, t2)
            /\ run' = [kind |-> "profile", started |-> run.started + 1,
                       profile_id |-> profile_id, window |-> NoWindow,
                       pc |-> "network", snapshot_id |-> EnsuredId(snapshot_id, t1),
                       requests |-> 0, began |-> Tables,
                       locals |-> RunLocals]
       ELSE /\ run' = [kind |-> "profile", started |-> run.started + 1,
                       profile_id |-> profile_id, window |-> NoWindow,
                       pc |-> "raised", snapshot_id |-> None,
                       requests |-> 0, began |-> Tables,
                       locals |-> RunLocals]
            /\ UNCHANGED <<snapshots, clock, ensured>>
    /\ UNCHANGED <<documents, affiliations, competitor_aliases, competitor_mentions,
                   ret, last, prev, monitoring_profiles>>

\* one_off_search_with_competitors up to esearch: the snapshot is ensured
\* first, with no id.
OneOffSearchWithCompetitors(min, max, t1, t2) ==
    /\ MayStart
    /\ EnsureSnapshotCall(None, NotesOneOff, t1, t2)
    /\ run' = [kind |-> "pubmed", started |-> run.started + 1,
               profile_id |-> 0, window |-> <<min, max>>,
               pc |-> "network", snapshot_id |-> EnsuredId(None, t1),
               requests |-> 0, began |-> Tables,
                       locals |-> RunLocals]
    /\ UNCHANGED <<documents, affiliations, competitor_aliases, competitor_mentions,
                   ret, last, prev, monitoring_profiles>>

\* one_off_ctgov_search up to search_studies: the snapshot is ensured first.
OneOffCtgovSearch(snapshot_id, sd, ed, t1, t2) ==
    /\ MayStart
    /\ EnsureSnapshotCall(snapshot_id, NotesCtgov, t1, t2)
    /\ run' = [kind |-> "ctgov", started |-> run.started + 1,
               profile_id |-> 0, window |-> <<sd, ed>>,
               pc |-> "network", snapshot_id |-> EnsuredId(snapshot_id, t1),
               requests |-> 0, began |-> Tables,
                       locals |-> RunLocals]
    /\ UNCHANGED <<documents, affiliations, competitor_aliases, competitor_mentions,
                   ret, last, prev, monitoring_profiles>>

\* An adapter call (esearch, an efetch batch, a page request) returns n ids
\* or parsed records; more says whether the run has another call to make.
\* esearch comes first in the PubMed runs and its count is printed; the
\* fetch loop runs only when it returned ids.
AdapterReturns(more, n) ==
    /\ run.pc = "network"
    /\ run.requests < MaxRequests
    /\ IF run.kind # "ctgov" /\ run.requests = 0
       THEN /\ more = (n > 0)
            /\ run' = [run EXCEPT !.requests = @ + 1,
                                  !.pc = IF more THEN "network" ELSE "fetched",
                                  !.locals.pmids = n,
                                  !.locals.report.fetched = n]
       ELSE /\ run.locals.candidates + n <= MaxRecords
            /\ run.kind # "ctgov" => run.locals.candidates + n <= run.locals.pmids
            /\ run' = [run EXCEPT !.requests = @ + 1,
                                  !.pc = IF more THEN "network" ELSE "fetched",
                                  !.locals.candidates = @ + n]
    /\ UNCHANGED <<storeVars, clock, monitoring_profiles, ensured>>

\* An adapter call raises (timeout, non-2xx): the exception leaves the run.
AdapterRaises ==
    /\ run.pc = "network"
    /\ run.requests < MaxRequests
    /\ run' = [run EXCEPT !.requests = @ + 1, !.pc = "raised"]
    /\ UNCHANGED <<storeVars, clock, monitoring_profiles, ensured>>

RunSource == IF run.kind = "ctgov" THEN "ctgov" ELSE "pubmed"

\* The window filter after the last fetch: recs are the records it keeps of
\* the candidates.  The PubMed runs print the number dropped when it is not 0
\* and the number they ingest; one_off_ctgov_search is handed the filtered
\* list by search_studies and prints its length as what the API returned.
RunFilter(recs) ==
    /\ run.pc = "fetched"
    /\ Len(recs) <= run.locals.candidates
    /\ run' =
          IF run.kind = "ctgov"
          THEN [run EXCEPT !.pc = "filtered", !.locals.in_window = recs,
                           !.locals.report.fetched = Len(recs)]
          ELSE LET dropped == run.locals.candidates - Len(recs)
               IN  [run EXCEPT !.pc = "filtered", !.locals.in_window = recs,
                               !.locals.report.filtered_out =
                                   IF dropped # 0 THEN dropped ELSE NotReported,
                               !.locals.report.ingested = Len(recs)]
    /\ UNCHANGED <<storeVars, clock, monitoring_profiles, ensured>>

\* An upsert whose rows stay in the connection: the commit is left out.
RunUpsertUncommitted(recs) ==
    /\ run.pc = "filtered"
    /\ recs = run.locals.in_window
    /\ run' = [run EXCEPT !.pc = IF run.kind = "ctgov" /\ recs = <<>>
                                 THEN "returned" ELSE "upserted"]
    /\ UNCHANGED <<storeVars, clock, monitoring_profiles, ensured>>

\* The records that passed the window filter are upserted; one_off_ctgov_search
\* returns before the upsert when there are none.
RunUpsert(recs) ==
    /\ run.pc = "filtered"
    /\ recs = run.locals.in_window
    /\ IF run.kind = "ctgov" /\ recs = <<>>
       THEN /\ run' = [run EXCEPT !.pc = "returned"]
            /\ UNCHANGED <<snapshots, documents, affiliations, competitor_aliases,
                           competitor_mentions, ret>>
       ELSE /\ Upsert(RunSource, recs, run.snapshot_id)
            /\ run' = [run EXCEPT !.pc = "upserted"]
    /\ UNCHANGED <<last, prev, clock, monitoring_profiles, ensured>>

\* tag_competitors(snapshot_id) of the run.
RunTag ==
    /\ run.pc = "upserted"
    /\ TagCompetitors(run.snapshot_id)
    /\ run' = [run EXCEPT !.pc = "tagged", !.locals.report.mentions = ret'.count]
    /\ UNCHANGED <<clock, monitoring_profiles, ensured>>

\* The run returns its snapshot_id; ingest_profile first writes it to the
\* profile's last_snapshot_id.
RunReturn ==
    /\ run.pc = "tagged"
    /\ monitoring_profiles' =
          IF run.kind = "profile"
          THEN [monitoring_profiles EXCEPT ![run.profile_id].last_snapshot_id = run.snapshot_id]
          ELSE monitoring_profiles
    /\ run' = [run EXCEPT !.pc = "returned"]
    /\ UNCHANGED <<storeVars, clock, ensured>>

\* add_aliases between runs.
SeedAlias(row) ==
    /\ BetweenRuns
    /\ AddAlias(row)
    /\ UNCHANGED runVars

\* Inputs of the runs.
ProfileIds == {1, 2, 3}

RunWindowsPubmed ==
    { <<SlashDateString(2026, 1, 1), SlashDateString(2026, 2, 16)>>,
      <<SlashDateString(2026, 2, 16), SlashDateString(2026, 1, 1)>> }

RunWindowsCtgov ==
    { <<IsoDateText(WindowJanFeb[1]), IsoDateText(WindowJanFeb[2])>>,
      <<IsoDateText(WindowJanFeb[2]), IsoDateText(WindowJanFeb[1])>> }

RunRecordsPubmed == {<<>>, <<[pmid |-> "101", affiliations |-> <<AffAcme>>]>>}

RunRecordsCtgov ==
    {<<>>, <<[nct_id |-> "NCT01", lead_sponsor_name |-> NameAcme,
              collaborator_names |-> <<NameUcb>>]>>}

NextRun ==
    \/ (\E id \in GivenIds, t1, t2 \in Ticks :
            EnsureSnapshotAlone(id, NotesInitial, t1, t2))
            /\ UNCHANGED <<txVars, windowVars, searchVars, auxVars>>
    \/ (\E p \in ProfileIds, id \in GivenIds, t1, t2 \in Ticks :
            IngestProfile(p, id, t1, t2))
            /\ UNCHANGED <<txVars, windowVars, searchVars, auxVars>>
    \/ (\E w \in RunWindowsPubmed, t1, t2 \in Ticks :
            OneOffSearchWithCompetitors(w[1], w[2], t1, t2))
            /\ UNCHANGED <<txVars, windowVars, searchVars, auxVars>>
    \/ (\E id \in GivenIds, w \in RunWindowsCtgov, t1, t2 \in Ticks :
            OneOffCtgovSearch(id, w[1], w[2], t1, t2))
            /\ UNCHANGED <<txVars, windowVars, searchVars, auxVars>>
    \/ (\E more \in BOOLEAN, n \in 0..MaxRecords : AdapterReturns(more, n))
            /\ UNCHANGED <<txVars, windowVars, searchVars, auxVars>>
    \/ AdapterRaises /\ UNCHANGED <<txVars, windowVars, searchVars, auxVars>>
    \/ (\E recs \in (IF run.kind = "ctgov" THEN RunRecordsCtgov ELSE RunRecordsPubmed) :
            RunFilter(recs))
            /\ UNCHANGED <<txVars, windowVars, searchVars, auxVars>>
    \/ (\E recs \in (IF run.kind = "ctgov" THEN RunRecordsCtgov ELSE RunRecordsPubmed) :
            RunUpsert(recs))
            /\ UNCHANGED <<txVars, windowVars, searchVars, auxVars>>
    \/ RunTag /\ UNCHANGED <<txVars, windowVars, searchVars, auxVars>>
    \/ RunReturn /\ UNCHANGED <<txVars, windowVars, searchVars, auxVars>>
    \/ SeedAlias([alias |-> AliasAcme, competitor_id |-> 1])
            /\ UNCHANGED <<txVars, windowVars, searchVars, auxVars>>

SpecRun == Init /\ [][NextRun]_vars

-----------------------------------------------------------------------------
(* Properties of snapshots and of runs.                                    *)

\* C16: ensure_snapshot called with an id returns that id, and a snapshot
\* row, once there, is still there after every step with the same created_at
\* and notes: no step of a run, of ensure_snapshot, of the upsert or of the
\* tagger deletes or rewrites one, so the set of snapshots only grows.
C16_SnapshotRowsStay ==
    /\ [](ensured.last.given # None => ensured.last.returned = ensured.last.given)
    /\ [][\A r \in snapshots : r \in snapshots']_vars

\* ensure_snapshot was called with the id of an existing snapshot and other
\* notes than the row carries; the row has kept its own.
C16_Witness ==
    /\ ensured.last.given # None
    /\ ~ ensured.last.inserted
    /\ \E r \in snapshots :
          /\ r.snapshot_id = ensured.last.returned
          /\ r.notes # ensured.last.notes

\* C17 as stated: a call of ensure_snapshot with no id creates a snapshot of
\* its own; it never returns an id an earlier call with no id returned.
C17_NoIdMeansOwnSnapshot ==
    ensured.last.given = None /\ ensured.last.returned # None =>
        ensured.last.inserted /\ ~ ensured.last.again

\* The snapshot rows whose ids ensure_snapshot generated.
GeneratedRows == {r \in snapshots : r.snapshot_id \in ensured.generated}

ConfigurationError ==
    \/ /\ run.kind = "profile"
       /\ \/ run.profile_id \notin DOMAIN monitoring_profiles
          \/ ~ monitoring_profiles[run.profile_id].is_active
    \/ /\ run.kind = "pubmed"
       /\ StrptimeSlashOrdinal(run.window[1]) # NoneOrdinal
       /\ StrptimeSlashOrdinal(run.window[2]) # NoneOrdinal
       /\ StrptimeSlashOrdinal(run.window[1]) > StrptimeSlashOrdinal(run.window[2])
    \/ /\ run.kind = "ctgov"
       /\ ParseCtDateToOrdinal(run.window[1]) # NoneOrdinal
       /\ ParseCtDateToOrdinal(run.window[2]) # NoneOrdinal
       /\ ParseCtDateToOrdinal(run.window[1]) > ParseCtDateToOrdinal(run.window[2])

\* C19 as stated: a run with a configuration error has failed, without an
\* adapter call and without a snapshot row created.
C19_ConfigErrorFailsFirst ==
    ConfigurationError =>
        /\ run.pc = "raised"
        /\ run.requests = 0
        /\ snapshots = run.began.snapshots

\* C20 as stated: a run that an exception has left has added or changed no
\* snapshot, document, affiliation or mention row.
C20_RaisingRunProducesNothing ==
    run.pc = "raised" => Tables = run.began

-----------------------------------------------------------------------------
(* Properties of the steps of a run.                                       *)

\* The positions a run passes through, each with the ones that may follow:
\* the adapter calls (search first, then the fetches), the window filter,
\* the committed upsert, the committed tagger, the return.
RunOrder ==
    { <<"network", "fetched">>, <<"network", "raised">>, <<"fetched", "filtered">>,
      <<"filtered", "upserted">>, <<"filtered", "returned">>,
      <<"upserted", "tagged">>, <<"tagged", "returned">> }

\* What the run's records are expected to leave in the affiliations table.
RunAffiliationsOf(rec) ==
    IF run.kind = "ctgov" THEN FirstOccurrences(StrippedNames(rec)) ELSE rec.affiliations

\* A new reader finds the document row of every record the run ingested, in
\* the run's snapshot, with the record's affiliation rows.
RunDocumentsVisible ==
    \A i \in DOMAIN run.locals.in_window :
        LET rec == run.locals.in_window[i]
            d == IF run.kind = "ctgov" THEN "NCT:" \o rec.nct_id ELSE "PMID:" \o rec.pmid
        IN  /\ \E j \in DOMAIN documents :
                  documents[j].doc_id = d /\ documents[j].snapshot_id = run.snapshot_id
            /\ AffiliationTexts(affiliations, d) = RunAffiliationsOf(rec)

\* A new reader finds a mention row for every alias that occurs, whatever the
\* case, in an affiliation of a document the run ingested.
RunMentionsVisible ==
    \A i \in DOMAIN run.locals.in_window :
        LET rec == run.locals.in_window[i]
            d == IF run.kind = "ctgov" THEN "NCT:" \o rec.nct_id ELSE "PMID:" \o rec.pmid
            texts == RunAffiliationsOf(rec)
        IN  \A t \in DOMAIN texts, k \in DOMAIN competitor_aliases :
                Contains(Lower(competitor_aliases[k].alias), Lower(texts[t])) =>
                    \E m \in DOMAIN competitor_mentions :
                        /\ competitor_mentions[m].doc_id = d
                        /\ competitor_mentions[m].competitor_id =
                               competitor_aliases[k].competitor_id
                        /\ competitor_mentions[m].match_text = competitor_aliases[k].alias

\* C21: a run moves through its steps in the order search, fetch, window
\* filter, upsert, tag, return; while tag_competitors has not started or is
\* done the rows of the run's upsert are committed; and when the run has
\* returned, its document, affiliation and mention rows are in the committed
\* tables a new reader opens.
C21_StepsInOrder ==
    /\ [][run'.started = run.started /\ run'.pc # run.pc
            => <<run.pc, run'.pc>> \in RunOrder]_vars
    /\ [](run.pc \in {"upserted", "tagged"} => RunDocumentsVisible)
    /\ [](run.pc = "returned" /\ ret.op = "tag"
            => RunDocumentsVisible /\ RunMentionsVisible)

\* A profile run and a trial run each returned after ingesting a record an
\* alias matches; the mention is there.
C21_Witness ==
    /\ run.pc = "returned"
    /\ ret.op = "tag"
    /\ run.locals.in_window # <<>>
    /\ competitor_aliases # <<>>
    /\ \E m \in DOMAIN competitor_mentions :
          competitor_mentions[m].doc_id \in {"PMID:101", "NCT:NCT01"}
    /\ run.requests = MaxRequests

-----------------------------------------------------------------------------
(* Properties of the counts a run prints.                                  *)

\* A count read from the run's output, a line that was not printed read as 0.
Reported(count) == IF count = NotReported THEN 0 ELSE count

\* C22: every run that returns has reported the number of candidate records
\* it fetched, the number the window filter dropped and the number of
\* mentions, and the reported numbers add up: fetched = ingested + filtered
\* out.  A filtered-out line that was not printed is read as zero, and so is a
\* mentions line of a run that ingested nothing.
C22_EveryRunReports ==
    run.pc = "returned" =>
        LET r == run.locals.report
            ingested == Len(run.locals.in_window)
        IN  /\ r.fetched = run.locals.candidates
            /\ Reported(r.filtered_out) = run.locals.candidates - ingested
            /\ r.fetched = ingested + Reported(r.filtered_out)
            /\ ingested > 0 => r.mentions # NotReported

-----------------------------------------------------------------------------
(* The two date normalizers side by side: _parse_date_to_ordinal of the     *)
(* PubMed adapter and _parse_ct_date_to_ordinal of the trial adapter, each  *)
(* called with the same string.                                             *)

ShapeYears == {ZFill(IntToText(y), 4) : y \in {0, 999, 2024, 2026}}
ShapeMonths == {ZFill(IntToText(m), 2) : m \in {0, 1, 2, 12, 13}}
ShapeDays == {ZFill(IntToText(d), 2) : d \in {0, 1, 28, 29, 30, 31, 32}}

\* Strings of the shapes YYYY, YYYY-MM and YYYY-MM-DD, calendar days or not.
DateShapeInputs ==
    ShapeYears
    \cup {y \o <<"-">> \o m : y \in ShapeYears, m \in ShapeMonths}
    \cup {y \o <<"-">> \o m \o <<"-">> \o d : y \in ShapeYears, m \in ShapeMonths, d \in ShapeDays}

\* Strings of no such shape: missing, empty, blank, not numeric, a component
\* that is malformed or too large, surrounding or trailing text.
OddDateInputs ==
    { None, <<>>, <<" ">>, <<"a","b","c">>,
      IntToText(2026) \o <<"-","a","b">>,
      IntToText(2026) \o <<"-">> \o IntToText(2) \o <<"-","x">>,
      <<"2","0","2",SuperscriptTwo>>,
      IntToText(2026) \o <<"-",SuperscriptTwo>>,
      IntToText(2026) \o <<"-","0","2","-",SuperscriptTwo>>,
      IntToText(MaxCInt) \o <<"0">>,
      IntToText(2026) \o <<"-">> \o IntToText(MaxCInt) \o <<"0">>,
      IntToText(2026) \o <<"-","-">>,
      IntToText(2026) \o <<"-","0","2","-","1","5","-","0","1">>,
      <<" ">> \o IntToText(2026) \o <<"-","0","2">>,
      IntToText(2026) \o <<"/","0","2","/","1","5">> }

DateInputs == DateShapeInputs \cup OddDateInputs

InitDates ==
    /\ CoreIdle
    /\ ParseIdle
    /\ SeedIdle
    /\ ConcIdle
    /\ SummariesIdle
    /\ date_text \in DateInputs
    /\ ordinals = [pubmed |-> NotCalled, ctgov |-> NotCalled]

\* ord_val = _parse_date_to_ordinal(first_pub)
ParseDateToOrdinalCall ==
    /\ ordinals.pubmed = NotCalled
    /\ ordinals' = [ordinals EXCEPT !.pubmed = ParseDateToOrdinal(date_text)]
    /\ UNCHANGED date_text

\* ord_val = _parse_ct_date_to_ordinal(comp_date)
ParseCtDateToOrdinalCall ==
    /\ ordinals.ctgov = NotCalled
    /\ ordinals' = [ordinals EXCEPT !.ctgov = ParseCtDateToOrdinal(date_text)]
    /\ UNCHANGED date_text

NextDates ==
    \/ ParseDateToOrdinalCall
            /\ UNCHANGED <<storeVars, txVars, windowVars, searchVars, runVars, parseVars, seedVars, concVars, summaryVars>>
    \/ ParseCtDateToOrdinalCall
            /\ UNCHANGED <<storeVars, txVars, windowVars, searchVars, runVars, parseVars, seedVars, concVars, summaryVars>>

SpecDates == InitDates /\ [][NextDates]_vars

\* The year, month and day a string of one of the three shapes names, a
\* missing month or day read as 1.
ShapeFields(t) ==
    LET parts == Split(t, "-")
    IN  << ToInt(parts[1]),
           IF Len(parts) >= 2 THEN ToInt(parts[2]) ELSE 1,
           IF Len(parts) >= 3 THEN ToInt(parts[3]) ELSE 1 >>

IsCalendarDay(f) == ValidDate(f[1], f[2], f[3])

\* Earlier in the calendar.
CalendarBefore(f, g) ==
    \/ f[1] < g[1]
    \/ f[1] = g[1] /\ f[2] < g[2]
    \/ f[1] = g[1] /\ f[2] = g[2] /\ f[3] < g[3]

\* C23: for a string of the shape YYYY, YYYY-MM or YYYY-MM-DD both
\* normalizers return the same value; when the string names a calendar day
\* (the first of January or of the month where the day or month is not
\* written) that value is the day's ordinal, and the ordinals of two such
\* strings compare as their days do in the calendar.
C23_NormalizersAgree ==
    ( /\ date_text \in DateShapeInputs
      /\ ordinals.pubmed # NotCalled
      /\ ordinals.ctgov # NotCalled ) =>
        /\ ordinals.pubmed = ordinals.ctgov
        /\ IsCalendarDay(ShapeFields(date_text)) =>
              /\ ordinals.ctgov = ToOrdinal(ShapeFields(date_text)[1],
                                            ShapeFields(date_text)[2],
                                            ShapeFields(date_text)[3])
              /\ \A t \in DateShapeInputs :
                    IsCalendarDay(ShapeFields(t)) =>
                        /\ (ParseDateToOrdinal(t) < ordinals.pubmed)
                              = CalendarBefore(ShapeFields(t), ShapeFields(date_text))
                        /\ (ParseCtDateToOrdinal(t) < ordinals.ctgov)
                              = CalendarBefore(ShapeFields(t), ShapeFields(date_text))

\* Both normalizers were called with 2024-02 and returned the ordinal of the
\* first of February of that leap year.
C23_Witness ==
    /\ date_text = IntToText(2024) \o <<"-","0","2">>
    /\ ordinals.pubmed = ToOrdinal(2024, 2, 1)
    /\ ordinals.ctgov = ToOrdinal(2024, 2, 1)

\* C24: whatever the string, a normalizer returns an ordinal or None; no
\* exception leaves it.
C24_NormalizersNeverRaise ==
    /\ ordinals.pubmed # Raised
    /\ ordinals.ctgov # Raised

-----------------------------------------------------------------------------
(* Source records the adapters cannot use: a PubmedArticle without a PMID   *)
(* or without an Article, a study without an nctId.                         *)

MaxParseBatch == 3

\* Articles of an efetch answer: two complete ones, one with no PMID text,
\* one with no Article element.
BatchArticles ==
    { PubmedArticle("101", DayElement(WindowJanFeb[1]), NoElement, <<>>),
      PubmedArticle("102", DayElement(WindowJanFeb[2]), NoElement, <<>>),
      PubmedArticle("", DayElement(WindowJanFeb[1]), NoElement, <<>>),
      [PMID |-> "103", Article |-> NoElement, History |-> <<>>] }

\* Studies of an API page: two with an nctId, one without.
PageStudies ==
    { Study("NCT01", IsoDateText(WindowJanFeb[1]), None),
      Study("NCT02", None, IsoDateText(WindowJanFeb[2])),
      Study("", IsoDateText(WindowJanFeb[1]), None) }

InitParse ==
    /\ CoreIdle
    /\ DatesIdle
    /\ SeedIdle
    /\ ConcIdle
    /\ SummariesIdle
    /\ \/ \E xml \in SeqsUpTo(BatchArticles, MaxParseBatch) :
              source_batch = [kind |-> "pubmed", items |-> xml]
       \/ \E studies \in SeqsUpTo(PageStudies, MaxParseBatch) :
              source_batch = [kind |-> "ctgov", items |-> studies]
    /\ parse_result = NotParsed

\* records = parse_pubmed_xml(xml_text)
ParsePubmedXmlCall ==
    /\ source_batch.kind = "pubmed"
    /\ ~parse_result.done
    /\ parse_result' = [done |-> TRUE, records |-> ParsePubmedXml(source_batch.items)]
    /\ UNCHANGED source_batch

\* search_studies with no cap and no window, the upstream serving this one
\* page with no token.
SearchStudiesOnePage ==
    /\ source_batch.kind = "ctgov"
    /\ ~parse_result.done
    /\ LET r == ProcessStudies(source_batch.items, <<>>, <<>>)
       IN  parse_result' = [done |-> TRUE, records |-> FinalFilter(r.records, None, None)]
    /\ UNCHANGED source_batch

NextParse ==
    \/ ParsePubmedXmlCall
            /\ UNCHANGED <<storeVars, txVars, windowVars, searchVars, runVars, dateVars, seedVars, concVars, summaryVars>>
    \/ SearchStudiesOnePage
            /\ UNCHANGED <<storeVars, txVars, windowVars, searchVars, runVars, dateVars, seedVars, concVars, summaryVars>>

SpecParse == InitParse /\ [][NextParse]_vars

\* The source record has its identifier and its container.
Usable(item) ==
    IF source_batch.kind = "pubmed"
    THEN item.PMID # "" /\ item.Article # NoElement
    ELSE item.nctId # ""

SourceId(item) == IF source_batch.kind = "pubmed" THEN item.PMID ELSE item.nctId

RecordId(rec) == IF source_batch.kind = "pubmed" THEN rec.pmid ELSE rec.nct_id

\* C25: the records an adapter returns for a batch or page are, in the
\* order of the source, the records of exactly the source records that have
\* their identifier and container; the others are skipped and stop nothing.
C25_UnusableRecordsSkipped ==
    parse_result.done =>
        LET usable == SelectSeq(source_batch.items, Usable)
        IN  /\ Len(parse_result.records) = Len(usable)
            /\ \A i \in DOMAIN usable :
                  RecordId(parse_result.records[i]) = SourceId(usable[i])

\* A batch with an unusable article between two complete ones was parsed.
C25_Witness ==
    /\ parse_result.done
    /\ source_batch.kind = "pubmed"
    /\ Len(source_batch.items) = 3
    /\ Usable(source_batch.items[1])
    /\ ~Usable(source_batch.items[2])
    /\ Usable(source_batch.items[3])
    /\ source_batch.items[1] # source_batch.items[3]
    /\ Len(parse_result.records) = 2

-----------------------------------------------------------------------------
(* seed_competitors: the COMPETITORS table and main, which loads it one    *)
(* entry at a time into competitors and competitor_aliases.                 *)

\* COMPETITORS, in the order of the dict.
COMPETITORS ==
    <<
      [canonical_name |-> <<"A","c","c","r","o"," ","B","i","o","s","c","i","e","n","c","e">>,
       aliases |-> << <<"A","c","c","r","o"," ","B","i","o","s","c","i","e","n","c","e">> >>],
      [canonical_name |-> <<"A","b","b","V","i","e">>,
       aliases |-> << <<"A","b","b","V","i","e">> >>],
      [canonical_name |-> <<"A","k","e","s","o","B","i","o">>,
       aliases |-> << <<"A","k","e","s","o","B","i","o">> >>],
      [canonical_name |-> <<"A","l","m","i","r","a","l","l">>,
       aliases |-> << <<"A","l","m","i","r","a","l","l">> >>],
      [canonical_name |-> <<"A","l","u","m","n","i","s"," ","I","n","c">>,
       aliases |-> << <<"A","l","u","m","n","i","s"," ","I","n","c">> >>],
      [canonical_name |-> <<"A","m","g","e","n">>,
       aliases |-> << <<"A","m","g","e","n">> >>],
      [canonical_name |-> <<"A","n","a","p","t","y","s","B","i","o">>,
       aliases |-> << <<"A","n","a","p","t","y","s","B","i","o">> >>],
      [canonical_name |-> <<"A","r","t","a","x"," ","B","i","o","p","h","a","r","m","a">>,
       aliases |-> << <<"A","r","t","a","x"," ","B","i","o","p","h","a","r","m","a">> >>],
      [canonical_name |-> <<"A","s","t","r","a","Z","e","n","e","c","a">>,
       aliases |-> << <<"A","s","t","r","a","Z","e","n","e","c","a">> >>],
      [canonical_name |-> <<"B","a","u","s","c","h"," ","H","e","a","l","t","h">>,
       aliases |-> << <<"B","a","u","s","c","h"," ","H","e","a","l","t","h">> >>],
      [canonical_name |-> <<"B","e","i","j","i","n","g"," ","I","n","n","o","C","a","r","e"," ","P","h","a","r","m","a">>,
       aliases |-> << <<"B","e","i","j","i","n","g"," ","I","n","n","o","C","a","r","e"," ","P","h","a","r","m","a">> >>],
      [canonical_name |-> <<"B","i","o","c","a","d">>,
       aliases |-> << <<"B","i","o","c","a","d">>,
                      <<"B","i","o","c","a","d"," ","(","R","u","s","s","i","a",")">> >>],
      [canonical_name |-> <<"B","r","i","s","t","o","l","-","M","y","e","r","s"," ","S","q","u","i","b","b">>,
       aliases |-> << <<"B","r","i","s","t","o","l","-","M","y","e","r","s"," ","S","q","u","i","b","b">>,
                      <<"B","M","S">> >>],
      [canonical_name |-> <<"C","a","n","-","F","i","t","e"," ","B","i","o","p","h","a","r","m","a">>,
       aliases |-> << <<"C","a","n","-","F","i","t","e"," ","B","i","o","p","h","a","r","m","a">> >>],
      [canonical_name |-> <<"C","h","i","a"," ","T","a","i"," ","T","i","a","n","q","i","n","g"," ","P","h","a","r","m","a","c","e","u","t","i","c","a","l"," ","G","r","o","u","p"," ","C","o">>,
       aliases |-> << <<"C","h","i","a"," ","T","a","i"," ","T","i","a","n","q","i","n","g"," ","P","h","a","r","m","a","c","e","u","t","i","c","a","l"," ","G","r","o","u","p"," ","C","o">> >>],
      [canonical_name |-> <<"C","h","i","p","s","c","r","e","e","n"," ","B","i","o","s","c","i","e","n","c","e","s">>,
       aliases |-> << <<"C","h","i","p","s","c","r","e","e","n"," ","B","i","o","s","c","i","e","n","c","e","s">> >>],
      [canonical_name |-> <<"C","h","o","n","g","q","i","n","g"," ","G","e","n","r","i","x"," ","B","i","o","p","h","a","r","m","a","c","e","u","t","i","c","a","l">>,
       aliases |-> << <<"C","h","o","n","g","q","i","n","g"," ","G","e","n","r","i","x"," ","B","i","o","p","h","a","r","m","a","c","e","u","t","i","c","a","l">> >>],
      [canonical_name |-> <<"C","l","a","r","e","n","t"," ","B","i","o","p","h","a","r","m","a">>,
       aliases |-> << <<"C","l","a","r","e","n","t"," ","B","i","o","p","h","a","r","m","a">> >>],
      [canonical_name |-> <<"C","S","P","C"," ","O","u","y","i"," ","P","h","a","r","m","a","c","e","u","t","i","c","a","l">>,
       aliases |-> << <<"C","S","P","C"," ","O","u","y","i"," ","P","h","a","r","m","a","c","e","u","t","i","c","a","l">> >>],
      [canonical_name |-> <<"D","I","C","E"," ","T","h","e","r","a","p","e","u","t","i","c","s">>,
       aliases |-> << <<"D","I","C","E"," ","T","h","e","r","a","p","e","u","t","i","c","s">> >>],
      [canonical_name |-> <<"E","l","i"," ","L","i","l","l","y">>,
       aliases |-> << <<"E","l","i"," ","L","i","l","l","y">>,
                      <<"L","i","l","l","y">> >>],
      [canonical_name |-> <<"G","l","a","x","o","S","m","i","t","h","K","l","i","n","e">>,
       aliases |-> << <<"G","l","a","x","o","S","m","i","t","h","K","l","i","n","e">>,
                      <<"G","S","K">> >>],
      [canonical_name |-> <<"H","a","n","g","z","h","o","u"," ","H","."," ","P","h","a","r","m","a">>,
       aliases |-> << <<"H","a","n","g","z","h","o","u"," ","H","."," ","P","h","a","r","m","a">> >>],
      [canonical_name |-> <<"H","a","n","s","o","h"," ","P","h","a","r","m","a","c","e","u","t","i","c","a","l">>,
       aliases |-> << <<"H","a","n","s","o","h"," ","P","h","a","r","m","a","c","e","u","t","i","c","a","l">> >>],
      [canonical_name |-> <<"H","u","a","b","o"," ","B","i","o","p","h","a","r","m">>,
       aliases |-> << <<"H","u","a","b","o"," ","B","i","o","p","h","a","r","m">> >>],
      [canonical_name |-> <<"I","n","n","o","v","e","n","t"," ","B","i","o","l","o","g","i","c","s">>,
       aliases |-> << <<"I","n","n","o","v","e","n","t"," ","B","i","o","l","o","g","i","c","s">> >>],
      [canonical_name |-> <<"I","n","v","e","n","t","i","s","B","i","o">>,
       aliases |-> << <<"I","n","v","e","n","t","i","s","B","i","o">>,
                      <<"I","n","v","e","n","t","i","s","B","i","o"," ","C","o">> >>],
      [canonical_name |-> <<"I","o"," ","T","h","e","r","a","p","e","u","t","i","c","s">>,
       aliases |-> << <<"I","o"," ","T","h","e","r","a","p","e","u","t","i","c","s">> >>],
      [canonical_name |-> <<"J","i","a","n","g","s","u"," ","H","e","n","g","r","u","i"," ","P","h","a","r","m","a">>,
       aliases |-> << <<"J","i","a","n","g","s","u"," ","H","e","n","g","r","u","i"," ","P","h","a","r","m","a">> >>],
      [canonical_name |-> <<"J","o","h","n","s","o","n"," ","&"," ","J","o","h","n","s","o","n">>,
       aliases |-> << <<"J","o","h","n","s","o","n"," ","&"," ","J","o","h","n","s","o","n">>,
                      <<"J","&","J">>,
                      <<"J"," ","a","n","d"," ","J">>,
                      <<"J","a","n","s","s","e","n">>,
                      <<"J","o","h","n","s","o","n">> >>],
      [canonical_name |-> <<"L","E","O"," ","P","h","a","r","m","a">>,
       aliases |-> << <<"L","E","O"," ","P","h","a","r","m","a">> >>],
      [canonical_name |-> <<"L","i","v","z","o","n"," ","P","h","a","r","m","a">>,
       aliases |-> << <<"L","i","v","z","o","n"," ","P","h","a","r","m","a">> >>],
      [canonical_name |-> <<"M","e","i","j","i"," ","S","e","i","k","a"," ","P","h","a","r","m","a">>,
       aliases |-> << <<"M","e","i","j","i"," ","S","e","i","k","a"," ","P","h","a","r","m","a">> >>],
      [canonical_name |-> <<"M","e","r","c","k">>,
       aliases |-> << <<"M","e","r","c","k">> >>],
      [canonical_name |-> <<"M","o","o","n","L","a","k","e"," ","I","m","m","u","n","o","t","h","e","r","a","p","e","u","t","i","c","s">>,
       aliases |-> << <<"M","o","o","n","L","a","k","e"," ","I","m","m","u","n","o","t","h","e","r","a","p","e","u","t","i","c","s">> >>],
      [canonical_name |-> <<"N","o","v","a","r","t","i","s">>,
       aliases |-> << <<"N","o","v","a","r","t","i","s">> >>],
      [canonical_name |-> <<"N","o","v","o"," ","N","o","r","d","i","s","k">>,
       aliases |-> << <<"N","o","v","o"," ","N","o","r","d","i","s","k">> >>],
      [canonical_name |-> <<"O","r","u","k","a"," ","T","h","e","r","a","p","e","u","t","i","c","s">>,
       aliases |-> << <<"O","r","u","k","a"," ","T","h","e","r","a","p","e","u","t","i","c","s">>,
                      <<"O","r","u","k","a"," ","T","x">> >>],
      [canonical_name |-> <<"P","f","i","z","e","r">>,
       aliases |-> << <<"P","f","i","z","e","r">> >>],
      [canonical_name |-> <<"P","r","o","t","a","g","o","n","i","s","t"," ","T","h","e","r","a","p","e","u","t","i","c","s">>,
       aliases |-> << <<"P","r","o","t","a","g","o","n","i","s","t"," ","T","h","e","r","a","p","e","u","t","i","c","s">>,
                      <<"P","r","o","t","a","g","o","n","i","s","t"," ","T","x">> >>],
      [canonical_name |-> <<"Q","y","u","n","s"," ","T","h","e","r","a","p","e","u","t","i","c","s">>,
       aliases |-> << <<"Q","y","u","n","s"," ","T","h","e","r","a","p","e","u","t","i","c","s">> >>],
      [canonical_name |-> <<"R","o","c","h","e">>,
       aliases |-> << <<"R","o","c","h","e">> >>],
      [canonical_name |-> <<"S","a","n","o","f","i">>,
       aliases |-> << <<"S","a","n","o","f","i">> >>],
      [canonical_name |-> <<"S","F","A"," ","T","h","e","r","a","p","e","u","t","i","c","s">>,
       aliases |-> << <<"S","F","A"," ","T","h","e","r","a","p","e","u","t","i","c","s">> >>],
      [canonical_name |-> <<"S","h","a","n","g","h","a","i"," ","H","u","a","o","t","a"," ","B","i","o","p","h","a","r","m","a","c","e","u","t","i","c","a","l">>,
       aliases |-> << <<"S","h","a","n","g","h","a","i"," ","H","u","a","o","t","a"," ","B","i","o","p","h","a","r","m","a","c","e","u","t","i","c","a","l">>,
                      <<"S","h","a","n","g","h","a","i"," ","H","u","a","o","t","a"," ","B","i","o","p","h","a","r","m","a","c","e","u","t","i","c","a","l"," ","C","o">> >>],
      [canonical_name |-> <<"S","h","a","n","g","h","a","i"," ","J","u","n","s","h","i"," ","B","i","o","s","c","i","e","n","c","e">>,
       aliases |-> << <<"S","h","a","n","g","h","a","i"," ","J","u","n","s","h","i"," ","B","i","o","s","c","i","e","n","c","e">> >>],
      [canonical_name |-> <<"S","u","n"," ","P","h","a","r","m","a","c","e","u","t","i","c","a","l"," ","I","n","d","u","s","t","r","i","e","s">>,
       aliases |-> << <<"S","u","n"," ","P","h","a","r","m","a">> >>],
      [canonical_name |-> <<"S","u","n","s","h","i","n","e"," ","G","u","o","j","i","a","n"," ","P","h","a","r","m","a">>,
       aliases |-> << <<"S","u","n","s","h","i","n","e"," ","G","u","o","j","i","a","n"," ","P","h","a","r","m","a">> >>],
      [canonical_name |-> <<"T","a","k","e","d","a">>,
       aliases |-> << <<"T","a","k","e","d","a">> >>],
      [canonical_name |-> <<"U","C","B">>,
       aliases |-> << <<"U","C","B">> >>],
      [canonical_name |-> <<"U","s","y","n","o","v","a"," ","P","h","a","r","m","a","c","e","u","t","i","c","a","l","s">>,
       aliases |-> << <<"U","s","y","n","o","v","a"," ","P","h","a","r","m","a","c","e","u","t","i","c","a","l","s">> >>],
      [canonical_name |-> <<"V","a","n","d","a"," ","P","h","a","r","m","a","c","e","u","t","i","c","a","l","s">>,
       aliases |-> << <<"V","a","n","d","a"," ","P","h","a","r","m","a","c","e","u","t","i","c","a","l","s">> >>],
      [canonical_name |-> <<"Z","h","e","j","i","a","n","g"," ","W","e","n","d","a"," ","M","e","d","i","c","a","l"," ","T","e","c","h","n","o","l","o","g","y">>,
       aliases |-> << <<"Z","h","e","j","i","a","n","g"," ","W","e","n","d","a"," ","M","e","d","i","c","a","l"," ","T","e","c","h","n","o","l","o","g","y">> >>]
    >>

\* INSERT OR IGNORE INTO competitors (canonical_name), one row per name.
InsertOrIgnoreCompetitor(table, name) ==
    IF \E i \in DOMAIN table : table[i] = name THEN table ELSE Append(table, name)

\* SELECT competitor_id FROM competitors WHERE canonical_name = ?
CompetitorIdOf(table, name) == CHOOSE i \in DOMAIN table : table[i] = name

\* The loop of add_aliases: INSERT OR IGNORE INTO competitor_aliases, alias
\* by alias.
RECURSIVE AddAliasesRows(_, _, _)
AddAliasesRows(rows, cid, names) ==
    IF names = <<>> THEN rows
    ELSE LET row == [alias |-> Head(names), competitor_id |-> cid]
         IN  AddAliasesRows(
                 IF \E i \in DOMAIN rows : AliasKey(rows[i]) = AliasKey(row)
                 THEN rows ELSE Append(rows, row),
                 cid, Tail(names))

\* cid = upsert_competitor(canonical)
SeedUpsertCompetitor ==
    /\ seeding.cid = 0
    /\ seeding.entry <= Len(COMPETITORS)
    /\ LET name == COMPETITORS[seeding.entry].canonical_name
       IN  /\ competitors' = InsertOrIgnoreCompetitor(competitors, name)
           /\ seeding' = [seeding EXCEPT !.cid = CompetitorIdOf(competitors', name)]
    /\ UNCHANGED storeVars

\* add_aliases(cid, aliases), committed when its connection block ends.
SeedAddAliases ==
    /\ seeding.cid # 0
    /\ competitor_aliases' =
          AddAliasesRows(competitor_aliases, seeding.cid, COMPETITORS[seeding.entry].aliases)
    /\ ret' = NoRet
    /\ seeding' = [entry |-> seeding.entry + 1, cid |-> 0]
    /\ UNCHANGED <<snapshots, documents, affiliations, competitor_mentions, last, prev,
                   competitors>>

NextSeed ==
    \/ SeedUpsertCompetitor
            /\ UNCHANGED <<txVars, windowVars, searchVars, runVars, dateVars, parseVars, concVars, summaryVars>>
    \/ SeedAddAliases
            /\ UNCHANGED <<txVars, windowVars, searchVars, runVars, dateVars, parseVars, concVars, summaryVars>>

SpecSeed == Init /\ [][NextSeed]_vars

\* C26: no alias seeded for a competitor contains, whatever the case,
\* another alias of the same competitor.
C26_NoAliasContainsAnother ==
    \A i, j \in DOMAIN competitor_aliases :
        ( /\ i # j
          /\ competitor_aliases[i].competitor_id = competitor_aliases[j].competitor_id )
            => ~Contains(Lower(competitor_aliases[i].alias), Lower(competitor_aliases[j].alias))

-----------------------------------------------------------------------------
(* The window of a run with no window given.                               *)

\* C27: in ingest_profile the window the filter applies is the window
\* esearch sent as mindate and maxdate, whichever days the two clock reads
\* fall on.
C27_FilterWindowIsSearchWindow ==
    wpc \in {"profile", "filtered"} /\ today # <<>> =>
        /\ start_ord = StrptimeSlashOrdinal(mindate)
        /\ end_ord = StrptimeSlashOrdinal(maxdate)

-----------------------------------------------------------------------------
(* export_new_items: the documents new since the previous snapshot.        *)

\* The rows that come first under ORDER BY created_at DESC.
LatestRows(snaps) ==
    {r \in snaps : \A q \in snaps : ~ LexLess(r.created_at, q.created_at)}

\* get_latest_two_snapshots(): the pairs <<previous, current>> it may return
\* (rows that share a created_at come in either order); none with fewer than
\* two rows, where it raises ValueError.
GetLatestTwoSnapshots(snaps) ==
    { <<p.snapshot_id, c.snapshot_id>> :
          c \in LatestRows(snaps), p \in UNION {LatestRows(snaps \ {r}) : r \in LatestRows(snaps)} }
    \ { <<r.snapshot_id, r.snapshot_id>> : r \in snaps }

\* SELECT doc_id FROM documents WHERE snapshot_id = ? AND source = 'pubmed'
PubmedDocsOf(docs, sid) ==
    { docs[j].doc_id : j \in { k \in DOMAIN docs :
                                  docs[k].snapshot_id = sid /\ docs[k].source = "pubmed" } }

\* export_new_pubmed: the doc_ids of the rows it writes, for the pair of
\* snapshots get_latest_two_snapshots returned.
ExportNewPubmed(prev_sid, cur_sid) ==
    PubmedDocsOf(documents, cur_sid) \ PubmedDocsOf(documents, prev_sid)

PubmedNotes == {NotesProfile, NotesOneOff}

\* C28: when a PubMed run into a new snapshot has returned and the snapshot
\* before it was that of an earlier PubMed run, export_new_pubmed lists
\* exactly the documents the latest run ingested and the earlier run did not.
C28_ExportListsNewDocuments ==
    \A p \in run.began.snapshots :
        ( /\ run.pc = "returned"
          /\ run.kind \in {"profile", "pubmed"}
          /\ p.notes \in PubmedNotes
          /\ \A r \in run.began.snapshots : r.snapshot_id # run.snapshot_id
          /\ GetLatestTwoSnapshots(snapshots) = {<<p.snapshot_id, run.snapshot_id>>} )
        => ExportNewPubmed(p.snapshot_id, run.snapshot_id)
              = { "PMID:" \o run.locals.in_window[i].pmid : i \in DOMAIN run.locals.in_window }
                \ PubmedDocsOf(run.began.documents, p.snapshot_id)

-----------------------------------------------------------------------------
(* Two runs that upsert the same document at the same time, each through   *)
(* its own connection.  A connection's statements act on its own view; the *)
(* first of them takes the database's write lock, which the connection     *)
(* keeps until it commits, and a connection that finds the lock taken      *)
(* waits, or gives up when its timeout ends.                               *)

\* What the connection reads: its own uncommitted rows while it holds the
\* lock, the committed tables otherwise.
CurrentView(c) == IF db_lock = c THEN writers[c].view ELSE Committed

\* Every statement its own transaction: the rows are committed and the lock
\* released when the statement ends.
StatementEndAutocommit(c, view) == [tables |-> view, lock |-> 0]

\* A statement inside the transaction the first INSERT opened: its rows stay
\* in the connection and the lock stays with it.
StatementEnd(c, view) == [tables |-> Committed, lock |-> c]

Execute(c, view, next) ==
    LET e == StatementEnd(c, view)
    IN  /\ documents' = e.tables.documents
        /\ affiliations' = e.tables.affiliations
        /\ db_lock' = e.lock
        /\ writers' = [writers EXCEPT ![c].view = view, ![c].pc = next]

\* A run reaches upsert_pubmed_records(records, snapshot_id) with one record;
\* its snapshot was ensured before.
ConcUpsertCall(c, sid, rec) ==
    /\ writers[c].pc = "idle"
    /\ EnsureSnapshot(sid)
    /\ writers' = [writers EXCEPT ![c] =
                      [pc |-> "document", sid |-> sid, rec |-> rec,
                       view |-> Committed, affs |-> rec.affiliations]]
    /\ UNCHANGED db_lock

\* INSERT OR REPLACE INTO documents: the statement that opens the
\* transaction, possible when no other connection holds the lock.
ConcDocument(c) ==
    /\ writers[c].pc = "document"
    /\ db_lock \in {0, c}
    /\ LET v == CurrentView(c)
           row == [doc_id |-> PubmedDocId(writers[c].rec), source |-> "pubmed",
                   snapshot_id |-> writers[c].sid]
       IN  Execute(c, [v EXCEPT !.documents = InsertOrReplaceDocument(@, row)], "delete")
    /\ UNCHANGED <<snapshots, competitor_aliases, competitor_mentions, ret, last, prev>>

\* The lock is still taken when the timeout ends: OperationalError, the
\* connection block is left with nothing written.
ConcLocked(c) ==
    /\ writers[c].pc = "document"
    /\ db_lock \notin {0, c}
    /\ writers' = [writers EXCEPT ![c].pc = "raised"]
    /\ UNCHANGED <<storeVars, db_lock>>

\* DELETE FROM affiliations WHERE doc_id = ?
ConcDelete(c) ==
    /\ writers[c].pc = "delete"
    /\ db_lock \in {0, c}
    /\ LET v == CurrentView(c)
       IN  Execute(c, [v EXCEPT !.affiliations =
                          DeleteAffiliations(@, PubmedDocId(writers[c].rec))], "insert")
    /\ UNCHANGED <<snapshots, competitor_aliases, competitor_mentions, ret, last, prev>>

\* INSERT INTO affiliations, one row per statement.
ConcInsert(c) ==
    /\ writers[c].pc = "insert"
    /\ writers[c].affs # <<>>
    /\ db_lock \in {0, c}
    /\ LET v == CurrentView(c)
           e == StatementEnd(c, [v EXCEPT !.affiliations =
                    InsertAffiliation(@, PubmedDocId(writers[c].rec), Head(writers[c].affs))])
           view == [v EXCEPT !.affiliations =
                    InsertAffiliation(@, PubmedDocId(writers[c].rec), Head(writers[c].affs))]
       IN  /\ documents' = e.tables.documents
           /\ affiliations' = e.tables.affiliations
           /\ db_lock' = e.lock
           /\ writers' = [writers EXCEPT ![c].view = view, ![c].affs = Tail(@)]
    /\ UNCHANGED <<snapshots, competitor_aliases, competitor_mentions, ret, last, prev>>

\* conn.commit(): the connection's rows become the committed tables and the
\* lock is released.
ConcCommit(c) ==
    /\ writers[c].pc = "insert"
    /\ writers[c].affs = <<>>
    /\ db_lock \in {0, c}
    /\ documents' = CurrentView(c).documents
    /\ affiliations' = CurrentView(c).affiliations
    /\ db_lock' = 0
    /\ writers' = [writers EXCEPT ![c].pc = "committed"]
    /\ UNCHANGED <<snapshots, competitor_aliases, competitor_mentions, ret, last, prev>>

NextConcurrent ==
    \/ (\E c \in Conns, sid \in SnapshotIds, rec \in PubMedRecords : ConcUpsertCall(c, sid, rec))
            /\ UNCHANGED <<txVars, windowVars, searchVars, runVars, dateVars, parseVars, seedVars, summaryVars>>
    \/ (\E c \in Conns : ConcDocument(c))
            /\ UNCHANGED <<txVars, windowVars, searchVars, runVars, dateVars, parseVars, seedVars, summaryVars>>
    \/ (\E c \in Conns : ConcLocked(c))
            /\ UNCHANGED <<txVars, windowVars, searchVars, runVars, dateVars, parseVars, seedVars, summaryVars>>
    \/ (\E c \in Conns : ConcDelete(c))
            /\ UNCHANGED <<txVars, windowVars, searchVars, runVars, dateVars, parseVars, seedVars, summaryVars>>
    \/ (\E c \in Conns : ConcInsert(c))
            /\ UNCHANGED <<txVars, windowVars, searchVars, runVars, dateVars, parseVars, seedVars, summaryVars>>
    \/ (\E c \in Conns : ConcCommit(c))
            /\ UNCHANGED <<txVars, windowVars, searchVars, runVars, dateVars, parseVars, seedVars, summaryVars>>

SpecConcurrent == Init /\ [][NextConcurrent]_vars

\* The committed rows of document d are those of connection c's run.
RowsOfRun(c, d) ==
    /\ writers[c].pc = "committed"
    /\ PubmedDocId(writers[c].rec) = d
    /\ \A j \in DOMAIN documents :
          documents[j].doc_id = d => documents[j].snapshot_id = writers[c].sid
    /\ Cardinality({j \in DOMAIN documents : documents[j].doc_id = d}) = 1
    /\ AffiliationTexts(affiliations, d) = writers[c].rec.affiliations

\* C29: whenever a reader looks, a document two runs upsert concurrently
\* has either no committed row and no affiliation rows, or the row of one of
\* the runs with exactly that run's affiliation rows; and when both
\* connections are done, one of them has committed.
C29_OneRunsRowsOnly ==
    /\ \A d \in {PubmedDocId(rec) : rec \in PubMedRecords} :
          \/ /\ \A j \in DOMAIN documents : documents[j].doc_id # d
             /\ AffiliationTexts(affiliations, d) = <<>>
          \/ \E c \in Conns : RowsOfRun(c, d)
    /\ (\A c \in Conns : writers[c].pc \in {"committed", "raised"})
          => \E c \in Conns : writers[c].pc = "committed"

\* Both runs committed, with different snapshots and different affiliation
\* lists, and the rows are those of the first connection.
C29_Witness ==
    /\ \A c \in Conns : writers[c].pc = "committed"
    /\ writers[1].sid # writers[2].sid
    /\ writers[1].rec.affiliations # writers[2].rec.affiliations
    /\ RowsOfRun(1, PubmedDocId(writers[1].rec))

-----------------------------------------------------------------------------
(* Background summarization: one_off_search_with_competitors starts a       *)
(* subprocess when it recorded mentions, the dashboard starts a thread for  *)
(* the snapshot the run returned, and both call                             *)
(* upsert_summaries_for_snapshot for the same snapshot.                     *)

SummarySnapshot == "2026-02-16T13-48-49Z"

AbstractText == <<"R","e","s","u","l","t","s">>

\* The documents of the snapshot: two with a mention and an abstract, one
\* with a mention and a blank abstract, one with no mention.
SummaryDocuments ==
    << [doc_id |-> "PMID:101", source |-> "pubmed", snapshot_id |-> SummarySnapshot,
        abstract |-> AbstractText],
       [doc_id |-> "PMID:102", source |-> "pubmed", snapshot_id |-> SummarySnapshot,
        abstract |-> AbstractText],
       [doc_id |-> "PMID:103", source |-> "pubmed", snapshot_id |-> SummarySnapshot,
        abstract |-> <<" ">>],
       [doc_id |-> "PMID:104", source |-> "pubmed", snapshot_id |-> SummarySnapshot,
        abstract |-> AbstractText] >>

SummaryAffiliations ==
    << [doc_id |-> "PMID:101", affiliation_text |-> AffAcme],
       [doc_id |-> "PMID:102", affiliation_text |-> AffAcme],
       [doc_id |-> "PMID:103", affiliation_text |-> AffAcme],
       [doc_id |-> "PMID:104", affiliation_text |-> AffUcb] >>

SummaryAlias == [alias |-> AliasAcme, competitor_id |-> 1]

SummaryMentions ==
    << MentionRow("PMID:101", SummaryAlias), MentionRow("PMID:102", SummaryAlias),
       MentionRow("PMID:103", SummaryAlias) >>

\* The tables as a one-off PubMed run leaves them when tag_competitors has
\* returned, with the alias seeded before the run or not, and with or
\* without a summary row an earlier task wrote.
InitSummaries ==
    /\ TxIdle /\ WindowIdle /\ SearchIdle /\ RunInit
    /\ DatesIdle /\ ParseIdle /\ SeedIdle /\ ConcIdle
    /\ snapshots = {[snapshot_id |-> SummarySnapshot, created_at |-> IsoFormat(Now(0)),
                     notes |-> NotesOneOff]}
    /\ documents = SummaryDocuments
    /\ affiliations = SummaryAffiliations
    /\ \/ /\ competitor_aliases = <<SummaryAlias>>
          /\ competitor_mentions = SummaryMentions
          /\ caller = [pc |-> "tagged", snapshot_id |-> SummarySnapshot,
                       mentions |-> Len(SummaryMentions), started |-> FALSE]
       \/ /\ competitor_aliases = <<>>
          /\ competitor_mentions = <<>>
          /\ caller = [pc |-> "tagged", snapshot_id |-> SummarySnapshot,
                       mentions |-> 0, started |-> FALSE]
    /\ ret = NoRet
    /\ last = [d \in DocIds |-> NoUpsert]
    /\ prev = [d \in DocIds |-> NoUpsert]
    /\ document_summaries \in
          { <<>>, <<[doc_id |-> "PMID:101", snapshot_id |-> SummarySnapshot, task |-> 0]>> }
    /\ tasks = [t \in TaskIds |-> NoTask]

NewTask(sid) == [pc |-> "start", sid |-> sid, docs |-> {}, count |-> 0]

\* `if mentions > 0:` subprocess.Popen(...) in its try block: the child is
\* started and Popen returns, or Popen raises and the run prints a warning.
OneOffPopen(started) ==
    /\ caller.pc = "tagged"
    /\ caller.mentions = 0 => ~started
    /\ tasks' = IF started
                THEN [tasks EXCEPT ![Subprocess] = NewTask(caller.snapshot_id)]
                ELSE tasks
    /\ caller' = [caller EXCEPT !.pc = "spawned"]
    /\ UNCHANGED <<storeVars, document_summaries>>

\* The rest of one_off_search_with_competitors: the SELECT of the mentions,
\* the prints, return snapshot_id.
OneOffReturn ==
    /\ caller.pc = "spawned"
    /\ caller' = [caller EXCEPT !.pc = "returned"]
    /\ UNCHANGED <<storeVars, document_summaries, tasks>>

\* The dashboard after the run returned: a thread for the snapshot, unless
\* the session started one before.
DashboardThread ==
    /\ caller.pc = "returned"
    /\ tasks' = IF ~caller.started
                THEN [tasks EXCEPT ![Thread] = NewTask(caller.snapshot_id)]
                ELSE tasks
    /\ caller' = [caller EXCEPT !.pc = "done", !.started = TRUE]
    /\ UNCHANGED <<storeVars, document_summaries>>

\* fetch_docs_without_summaries: the documents of the snapshot that have a
\* mention, no summary row and an abstract that is not blank.
FetchDocsWithoutSummaries(sid) ==
    { documents[j].doc_id : j \in { k \in DOMAIN documents :
        /\ documents[k].snapshot_id = sid
        /\ \E m \in DOMAIN competitor_mentions :
              competitor_mentions[m].doc_id = documents[k].doc_id
        /\ \A r \in DOMAIN document_summaries :
              document_summaries[r].doc_id # documents[k].doc_id
        /\ Strip(documents[k].abstract) # <<>> } }

\* The key of document_summaries.
SummaryKey(row) == row.doc_id

\* A plain INSERT: a second row of the same key is refused.
InsertSummary(table, row) ==
    IF \E r \in DOMAIN table : SummaryKey(table[r]) = SummaryKey(row)
    THEN [error |-> TRUE, table |-> table]
    ELSE [error |-> FALSE, table |-> Append(table, row)]

\* INSERT OR REPLACE INTO document_summaries
InsertOrReplaceSummary(table, row) ==
    [error |-> FALSE,
     table |-> Append(SelectSeq(table, LAMBDA r : SummaryKey(r) # SummaryKey(row)), row)]

\* upsert_summaries_for_snapshot up to the connection block: the documents
\* are fetched; with none the call returns 0.
TaskFetch(t) ==
    /\ tasks[t].pc = "start"
    /\ LET docs == FetchDocsWithoutSummaries(tasks[t].sid)
       IN  tasks' = [tasks EXCEPT ![t].docs = docs,
                                  ![t].pc = IF docs = {} THEN "done" ELSE "summarising"]
    /\ UNCHANGED <<storeVars, document_summaries, caller>>

\* One future completes, in whatever order: with an empty study_summary the
\* document is passed over, otherwise its row is written and committed.
TaskSummarised(t, d, empty) ==
    /\ tasks[t].pc = "summarising"
    /\ d \in tasks[t].docs
    /\ IF empty
       THEN /\ tasks' = [tasks EXCEPT ![t].docs = @ \ {d}]
            /\ UNCHANGED document_summaries
       ELSE LET r == InsertOrReplaceSummary(document_summaries,
                        [doc_id |-> d, snapshot_id |-> tasks[t].sid, task |-> t])
            IN  /\ document_summaries' = r.table
                /\ tasks' = IF r.error
                            THEN [tasks EXCEPT ![t].pc = "failed"]
                            ELSE [tasks EXCEPT ![t].docs = @ \ {d}, ![t].count = @ + 1]
    /\ UNCHANGED <<storeVars, caller>>

\* The loop over the futures has ended: return count.
TaskDone(t) ==
    /\ tasks[t].pc = "summarising"
    /\ tasks[t].docs = {}
    /\ tasks' = [tasks EXCEPT ![t].pc = "done"]
    /\ UNCHANGED <<storeVars, document_summaries, caller>>

NextSummaries ==
    \/ (\E started \in BOOLEAN : OneOffPopen(started))
            /\ UNCHANGED <<txVars, windowVars, searchVars, runVars,
                           dateVars, parseVars, seedVars, concVars>>
    \/ OneOffReturn
            /\ UNCHANGED <<txVars, windowVars, searchVars, runVars,
                           dateVars, parseVars, seedVars, concVars>>
    \/ DashboardThread
            /\ UNCHANGED <<txVars, windowVars, searchVars, runVars,
                           dateVars, parseVars, seedVars, concVars>>
    \/ (\E t \in TaskIds : TaskFetch(t))
            /\ UNCHANGED <<txVars, windowVars, searchVars, runVars,
                           dateVars, parseVars, seedVars, concVars>>
    \/ (\E t \in TaskIds, d \in {"PMID:101", "PMID:102"}, empty \in BOOLEAN :
            TaskSummarised(t, d, empty))
            /\ UNCHANGED <<txVars, windowVars, searchVars, runVars,
                           dateVars, parseVars, seedVars, concVars>>
    \/ (\E t \in TaskIds : TaskDone(t))
            /\ UNCHANGED <<txVars, windowVars, searchVars, runVars,
                           dateVars, parseVars, seedVars, concVars>>

SpecSummaries == InitSummaries /\ [][NextSummaries]_vars

=============================================================================
